---- MODULE Spec2Model ----
(***************************************************************************)
(* Model of the pure core of pants-sls-distribution: the version and       *)
(* identity grammar (_types.py), the validation engine (_validation.py),   *)
(* the lock file codec (_lock_file.py), the check-script generator          *)
(* (_check_script.py), hook path validation (_hooks.py) and the layout      *)
(* assemblers (_layout.py, _asset_layout.py, rules/package.py).             *)
(*                                                                         *)
(* Text is modelled as TLA+ strings read one character at a time; Python's  *)
(* Optional[str] is modelled as a tuple: <<>> for None, <<s>> for a value.  *)
(***************************************************************************)
EXTENDS Integers, Sequences, FiniteSets, TLC

VARIABLES
    lock_pc,        \* lock codec: "start", "generated", "written", "parsed",
                    \* "parsed_text" or "validated"
    dependencies,   \* the argument of the last generate_lock_file call
    content,        \* the lock file text generate_lock_file returned
    parsed,         \* what parse_lock_file did with content
    lock_errors,    \* the list validate_lock_file returned for content
    valid_pc,       \* validation: "start" or the validator called last
    version,        \* the argument of is_orderable_version
    orderable,      \* what is_orderable_version returned
    dep,            \* the argument of validate_dependency
    dep_error,      \* the rule validate_dependency raised for, or "none"
    replication,    \* the argument of validate_replication
    replication_error,  \* the check validate_replication raised for, or "none"
    manifest,       \* the ManifestData given to validate_manifest_data
    report,         \* the (errors, warnings) validate_manifest_data returned
    manifest_data,  \* the ManifestData to_dict was called on
    manifest_doc,   \* the document to_dict returned
    layout_pc,      \* packaging: "start" or the function called last
    check_kwargs,   \* the arguments of generate_check_script
    check_result,   \* the CheckScriptResult, or the error raised
    layout_kwargs,  \* the arguments of build_layout
    asset_kwargs,   \* the arguments of build_asset_layout
    field_set,      \* the target fields given to assemble_sls_package
    sls_manifest,   \* what generate_manifest returned to assemble_sls_package
    package_error,  \* the error assemble_sls_package raised, or ""
    layout,         \* the SlsLayout returned, or raised
    hooks_pc,       \* hooks.sh: "start" or the runner called last
    hook_dir,       \* the hook directory the runner was called on
    hook_result,    \* the exit code of the runner and the hooks it ran
    entrypoint,     \* an execution of entrypoint.sh and its main process
    init,           \* init.sh, its PID file and the launchers it started
    invocations,    \* init.sh commands running at the same time on one
                    \* distribution, its PID file and its launchers
    platform,       \* what uname prints and which launchers are installed
    init_detect,    \* the outcome of the top-level code of init.sh
    shim_run,       \* the outcome of startup.d/00-main.sh
    check_run       \* the outcome of the check.sh of check_args mode

lock_vars == <<lock_pc, dependencies, content, parsed, lock_errors>>

valid_vars ==
    <<valid_pc, version, orderable, dep, dep_error, replication,
      replication_error, manifest, report, manifest_data, manifest_doc>>

layout_vars ==
    <<layout_pc, check_kwargs, check_result, layout_kwargs, asset_kwargs,
      field_set, sls_manifest, package_error, layout>>

core_vars == <<lock_vars, valid_vars, layout_vars>>

hooks_vars == <<hooks_pc, hook_dir, hook_result>>

entrypoint_vars == <<entrypoint>>

init_vars == <<init, invocations>>

platform_vars == <<platform, init_detect, shim_run, check_run>>

script_vars == <<hooks_vars, entrypoint_vars, init_vars, platform_vars>>

vars == <<lock_vars, valid_vars, layout_vars, script_vars>>

(***************************************************************************)
(* Bounds of the model.                                                     *)
(***************************************************************************)
MaxDeps == 2

MaxReplicas == 2

MaxHooks == 2

MaxAssets == 2

\* lines of a lock file written by hand
MaxLockLines == 3

\* entries of a hook directory
MaxHookFiles == 2

\* TERM and INT signals sent to one entrypoint.sh
MaxSignals == 2

\* largest SHUTDOWN_GRACE_SECONDS set in the environment
MaxGrace == 2

\* largest shutdown_timeout of a generated init.sh
MaxTimeout == 2

\* init.sh commands run one after another
MaxCommands == 3

\* init.sh commands run at the same time
MaxInvocations == 2

(***************************************************************************)
(* Characters and strings.                                                  *)
(***************************************************************************)
None == <<>>

Some(x) == <<x>>

\* Python truthiness of an Optional[str]: None and "" are falsy.
Truthy(o) == o # None /\ o[1] # ""

Char(s, i) == SubSeq(s, i, i)

CharSet(s) == { Char(s, i) : i \in 1..Len(s) }

\* The characters the model's texts are written in, in code point order.
AsciiOrder ==
    "\t\n\r #(),-./0123456789:ABCDEFGHIJKLMNOPQRSTUVWXYZ_abcdefghijklmnopqrstuvwxyz"

Alphabet == CharSet(AsciiOrder)

Ord(c) == CHOOSE i \in 1..Len(AsciiOrder) : Char(AsciiOrder, i) = c

Digit == CharSet("0123456789")

Lower == CharSet("abcdefghijklmnopqrstuvwxyz")

Upper == CharSet("ABCDEFGHIJKLMNOPQRSTUVWXYZ")

\* \s of Python's re, within the alphabet.
Whitespace == CharSet(" \t\n\r")

Min2(a, b) == IF a <= b THEN a ELSE b

\* Python's str < str: lexicographic by code point.
StrLess(a, b) ==
    \E k \in 0..Min2(Len(a), Len(b)) :
        /\ SubSeq(a, 1, k) = SubSeq(b, 1, k)
        /\ \/ k = Len(a) /\ k < Len(b)
           \/ /\ k < Len(a)
              /\ k < Len(b)
              /\ Ord(Char(a, k + 1)) < Ord(Char(b, k + 1))

StartsWith(s, prefix) ==
    Len(prefix) <= Len(s) /\ SubSeq(s, 1, Len(prefix)) = prefix

\* Index of the first occurrence of character c in s at or after i, or 0.
RECURSIVE Find(_, _, _)
Find(s, c, i) ==
    IF i > Len(s) THEN 0
    ELSE IF Char(s, i) = c THEN i
    ELSE Find(s, c, i + 1)

\* str.strip(): drop leading and trailing whitespace.
RECURSIVE LStrip(_)
LStrip(s) ==
    IF Len(s) > 0 /\ Char(s, 1) \in Whitespace THEN LStrip(SubSeq(s, 2, Len(s)))
    ELSE s

RECURSIVE RStrip(_)
RStrip(s) ==
    IF Len(s) > 0 /\ Char(s, Len(s)) \in Whitespace
    THEN RStrip(SubSeq(s, 1, Len(s) - 1))
    ELSE s

Strip(s) == RStrip(LStrip(s))

\* str.splitlines() for a text whose only line break is "\n": the pieces
\* between line breaks, without a final empty piece.
RECURSIVE SplitLines(_)
SplitLines(s) ==
    IF s = "" THEN <<>>
    ELSE LET nl == Find(s, "\n", 1) IN
         IF nl = 0 THEN <<s>>
         ELSE <<SubSeq(s, 1, nl - 1)>> \o SplitLines(SubSeq(s, nl + 1, Len(s)))

\* "\n".join(lines)
RECURSIVE JoinLines(_)
JoinLines(lines) ==
    IF lines = <<>> THEN ""
    ELSE IF Len(lines) = 1 THEN lines[1]
    ELSE lines[1] \o "\n" \o JoinLines(Tail(lines))

(***************************************************************************)
(* Regular expression steps.  A position is the index of the next          *)
(* character to read; 0 means the match has failed.                        *)
(***************************************************************************)
\* The end of the maximal run of characters of class C starting at i.
RECURSIVE SpanEnd(_, _, _)
SpanEnd(s, i, C) ==
    IF i <= Len(s) /\ Char(s, i) \in C THEN SpanEnd(s, i + 1, C) ELSE i

\* A literal.
Lit(s, i, lit) ==
    IF i # 0 /\ i + Len(lit) - 1 <= Len(s) /\ SubSeq(s, i, i + Len(lit) - 1) = lit
    THEN i + Len(lit)
    ELSE 0

\* [C]+ followed by something outside C: greedy, no backtracking needed.
Plus(s, i, C) ==
    IF i # 0 /\ SpanEnd(s, i, C) > i THEN SpanEnd(s, i, C) ELSE 0

\* [C]* followed by something outside C.
Star(s, i, C) == IF i # 0 THEN SpanEnd(s, i, C) ELSE 0

\* [C] once.
One(s, i, C) ==
    IF i # 0 /\ i <= Len(s) /\ Char(s, i) \in C THEN i + 1 ELSE 0

\* Python's $ (no MULTILINE): the end of the string, or just before a
\* newline that is the last character of the string.
Dollar(s, i) ==
    /\ i # 0
    /\ \/ i = Len(s) + 1
       \/ i = Len(s) /\ Char(s, i) = "\n"

(***************************************************************************)
(* _types.py: version and identity grammar.                                 *)
(***************************************************************************)
HexLower == CharSet("abcdef0123456789")

GroupChars == Lower \cup Digit \cup {".", "-"}

\* [0-9]+\.[0-9]+\.[0-9]+ from position i
VersionCore(s, i) ==
    Plus(s, Lit(s, Plus(s, Lit(s, Plus(s, i, Digit), "."), Digit), "."), Digit)

\* -rc[0-9]+
RcSuffix(s, i) == Plus(s, Lit(s, i, "-rc"), Digit)

\* -[0-9]+-g[a-f0-9]+
GitSuffix(s, i) == Plus(s, Lit(s, Plus(s, Lit(s, i, "-"), Digit), "-g"), HexLower)

\* The four ORDERABLE_VERSION_PATTERNS, each applied with re.match.
ORDERABLE_VERSION_PATTERNS(s) ==
    << Dollar(s, VersionCore(s, 1)),
       Dollar(s, RcSuffix(s, VersionCore(s, 1))),
       Dollar(s, GitSuffix(s, VersionCore(s, 1))),
       Dollar(s, GitSuffix(s, RcSuffix(s, VersionCore(s, 1)))) >>

is_orderable_version(s) ==
    \E p \in 1..4 : ORDERABLE_VERSION_PATTERNS(s)[p]

\* PRODUCT_GROUP_PATTERN ^[a-z0-9.-]+$
is_valid_product_group(group) == Dollar(group, Plus(group, 1, GroupChars))

\* PRODUCT_NAME_PATTERN ^[a-z][a-z0-9.-]*$
is_valid_product_name(name) ==
    Dollar(name, Star(name, One(name, 1, Lower), GroupChars))

\* ProductDependency.product_id / LockEntry.product_id
product_id(d) == d.product_group \o ":" \o d.product_name

(***************************************************************************)
(* _types.py: serialization of the manifest.  A dict is a sequence of       *)
(* [key, value] items in insertion order.  The document to_dict returns is  *)
(* given as the sequence of the keys and list items it holds, parents       *)
(* before children, each with its path from the top, the kind of its value, *)
(* the text of a scalar and the number of elements of a collection.         *)
(***************************************************************************)
Emitted(path, kind, text, size) ==
    [path |-> path, kind |-> kind, text |-> text, size |-> size]

StrValue(path, s) == <<Emitted(path, "str", s, Len(s))>>

BoolValue(path, b) ==
    <<Emitted(path, "bool", IF b THEN "True" ELSE "False", 1)>>

IntValue(path, n) == <<Emitted(path, "int", ToString(n), 1)>>

RECURSIVE Concat(_)
Concat(seqs) == IF seqs = <<>> THEN <<>> ELSE Head(seqs) \o Concat(Tail(seqs))

\* Python's index of the i-th element of a list.
Index(i) == ToString(i - 1)

\* dict(d) for a dict of strings.
StrDictValue(path, d) ==
    <<Emitted(path, "dict", "", Len(d))>>
        \o Concat([i \in 1..Len(d) |-> StrValue(Append(path, d[i].key), d[i].value)])

\* dict(d) for a dict of integers.
IntDictValue(path, d) ==
    <<Emitted(path, "dict", "", Len(d))>>
        \o Concat([i \in 1..Len(d) |-> IntValue(Append(path, d[i].key), d[i].value)])

\* list(t) for a tuple of strings.
StrListValue(path, t) ==
    <<Emitted(path, "list", "", Len(t))>>
        \o Concat([i \in 1..Len(t) |-> StrValue(Append(path, Index(i)), t[i])])

\* [dict(e) for e in t]
DictListValue(path, t) ==
    <<Emitted(path, "list", "", Len(t))>>
        \o Concat([i \in 1..Len(t) |-> StrDictValue(Append(path, Index(i)), t[i])])

\* A key set under "if value is not None".
IfNotNone(path, o) == IF o # None THEN StrValue(path, o[1]) ELSE <<>>

\* A key set under "if value", for an Optional[str].
IfTruthy(path, o) == IF Truthy(o) THEN StrValue(path, o[1]) ELSE <<>>

\* A dict literal or a list: the item of the collection, then its contents.
Collection(path, kind, size, contents) ==
    <<Emitted(path, kind, "", size)>> \o contents

\* ProductDependency.to_manifest_dict
dependency_to_manifest_dict(path, d) ==
    LET keys == StrValue(Append(path, "product-group"), d.product_group)
                \o StrValue(Append(path, "product-name"), d.product_name)
                \o StrValue(Append(path, "minimum-version"), d.minimum_version)
                \o IfNotNone(Append(path, "maximum-version"), d.maximum_version)
                \o IfNotNone(Append(path, "recommended-version"),
                             d.recommended_version)
                \o BoolValue(Append(path, "optional"), d.optional)
    IN  Collection(path, "dict", Len(keys), keys)

\* ProductIncompatibility.to_manifest_dict
incompatibility_to_manifest_dict(path, inc) ==
    LET keys == StrValue(Append(path, "product-group"), inc.product_group)
                \o StrValue(Append(path, "product-name"), inc.product_name)
                \o StrValue(Append(path, "version-range"), inc.version_range)
                \o StrValue(Append(path, "reason"), inc.reason)
    IN  Collection(path, "dict", Len(keys), keys)

\* Artifact.to_manifest_dict
artifact_to_manifest_dict(path, art) ==
    LET keys == StrValue(Append(path, "type"), art.type)
                \o StrValue(Append(path, "uri"), art.uri)
                \o IfNotNone(Append(path, "name"), art.name)
                \o IfNotNone(Append(path, "digest"), art.digest)
    IN  Collection(path, "dict", Len(keys), keys)

\* The number of keys a dict holds, given the items emitted for it and the
\* length of the dict's path.
KeysAt(items, depth) ==
    Cardinality({ i \in 1..Len(items) : Len(items[i].path) = depth + 1 })

\* ManifestData.to_dict
to_dict(data) ==
    LET resources ==
            (IF data.resource_requests # <<>>
             THEN StrDictValue(<<"resources", "requests">>, data.resource_requests)
             ELSE <<>>)
            \o (IF data.resource_limits # <<>>
                THEN StrDictValue(<<"resources", "limits">>, data.resource_limits)
                ELSE <<>>)
        extensions ==
            Concat([i \in 1..Len(data.extensions) |->
                        StrValue(<<"extensions", data.extensions[i].key>>,
                                 data.extensions[i].value)])
            \o (IF data.product_dependencies # <<>>
                THEN Collection(<<"extensions", "product-dependencies">>, "list",
                        Len(data.product_dependencies),
                        Concat([i \in 1..Len(data.product_dependencies) |->
                            dependency_to_manifest_dict(
                                <<"extensions", "product-dependencies", Index(i)>>,
                                data.product_dependencies[i])]))
                ELSE <<>>)
            \o (IF data.product_incompatibilities # <<>>
                THEN Collection(<<"extensions", "product-incompatibilities">>, "list",
                        Len(data.product_incompatibilities),
                        Concat([i \in 1..Len(data.product_incompatibilities) |->
                            incompatibility_to_manifest_dict(
                                <<"extensions", "product-incompatibilities", Index(i)>>,
                                data.product_incompatibilities[i])]))
                ELSE <<>>)
            \o (IF data.artifacts # <<>>
                THEN Collection(<<"extensions", "artifacts">>, "list",
                        Len(data.artifacts),
                        Concat([i \in 1..Len(data.artifacts) |->
                            artifact_to_manifest_dict(
                                <<"extensions", "artifacts", Index(i)>>,
                                data.artifacts[i])]))
                ELSE <<>>)
    IN  StrValue(<<"manifest-version">>, data.manifest_version)
        \o StrValue(<<"product-type">>, data.product_type)
        \o StrValue(<<"product-group">>, data.product_group)
        \o StrValue(<<"product-name">>, data.product_name)
        \o StrValue(<<"product-version">>, data.product_version)
        \o IfTruthy(<<"display-name">>, data.display_name)
        \o IfTruthy(<<"description">>, data.description)
        \o (IF data.traits # <<>> THEN StrListValue(<<"traits">>, data.traits)
            ELSE <<>>)
        \o (IF data.labels # <<>> THEN StrDictValue(<<"labels">>, data.labels)
            ELSE <<>>)
        \o (IF data.annotations # <<>>
            THEN StrDictValue(<<"annotations">>, data.annotations) ELSE <<>>)
        \o (IF data.resource_requests # <<>> \/ data.resource_limits # <<>>
            THEN Collection(<<"resources">>, "dict", KeysAt(resources, 1), resources)
            ELSE <<>>)
        \o (IF data.replication # <<>>
            THEN IntDictValue(<<"replication">>, data.replication) ELSE <<>>)
        \o (IF data.endpoints # <<>>
            THEN DictListValue(<<"endpoints">>, data.endpoints) ELSE <<>>)
        \o (IF data.volumes # <<>>
            THEN DictListValue(<<"volumes">>, data.volumes) ELSE <<>>)
        \o (IF data.secrets # <<>>
            THEN DictListValue(<<"secrets">>, data.secrets) ELSE <<>>)
        \o (IF extensions # <<>>
            THEN Collection(<<"extensions">>, "dict", KeysAt(extensions, 1),
                            extensions)
            ELSE <<>>)

(***************************************************************************)
(* _validation.py                                                           *)
(***************************************************************************)
\* The rule validate_dependency raises for, or "none" when it returns.
validate_dependency(d) ==
    IF ~is_valid_product_group(d.product_group) THEN "group"
    ELSE IF ~is_valid_product_name(d.product_name) THEN "name"
    ELSE IF ~is_orderable_version(d.minimum_version) THEN "minimum_version"
    ELSE IF /\ Truthy(d.maximum_version)
            /\ d.minimum_version = d.maximum_version[1]
         THEN "lockstep"
    ELSE IF /\ Truthy(d.recommended_version)
            /\ ~is_orderable_version(d.recommended_version[1])
         THEN "recommended_version"
    ELSE "none"

\* minimum_version.split(".")[0] + ".x.x"
resolve_default_max_version(minimum_version) ==
    LET dot == Find(minimum_version, ".", 1) IN
    (IF dot = 0 THEN minimum_version ELSE SubSeq(minimum_version, 1, dot - 1))
        \o ".x.x"

\* dict.get(key): None when the key is absent.
Get(map, key) == IF key \in DOMAIN map THEN Some(map[key]) ELSE None

\* The check validate_replication raises for, or "none" when it returns.
validate_replication(map) ==
    LET desired == Get(map, "desired")
        min_val == Get(map, "min")
        max_val == Get(map, "max")
    IN  IF min_val # None /\ desired # None /\ min_val[1] > desired[1]
        THEN "min>desired"
        ELSE IF desired # None /\ max_val # None /\ desired[1] > max_val[1]
        THEN "desired>max"
        ELSE IF min_val # None /\ max_val # None /\ min_val[1] > max_val[1]
        THEN "min>max"
        ELSE "none"

\* The rule validate_manifest_identity raises for, or "none".
validate_manifest_identity(group, name, ver) ==
    IF ~is_valid_product_group(group) THEN "product-group"
    ELSE IF ~is_valid_product_name(name) THEN "product-name"
    ELSE IF ~is_orderable_version(ver) THEN "product-version"
    ELSE "none"

\* One message of validate_manifest_data: what it is about and the values
\* its text is formatted from.
Message(kind, subject, args) == [kind |-> kind, subject |-> subject, args |-> args]

When(cond, message) == IF cond THEN <<message>> ELSE <<>>

VALID_TYPES == {"helm.v1", "asset.v1", "service.v1"}

\* The errors the dependency loop of validate_manifest_data appends for
\* dependency i, the ids seen before it being those of deps[1..i-1].
DependencyErrors(deps, i) ==
    LET d == deps[i]
        dep_id == product_id(d)
        seen_dep_ids == { product_id(deps[j]) : j \in 1..(i - 1) }
    IN  When(dep_id \in seen_dep_ids, Message("Duplicate", dep_id, <<>>))
        \o When(~is_orderable_version(d.minimum_version),
                Message("minimum_version", dep_id, <<d.minimum_version>>))
        \o When(d.maximum_version # None
                    /\ d.minimum_version = d.maximum_version[1],
                Message("lockstep", dep_id, <<d.minimum_version>>))
        \o When(Truthy(d.recommended_version)
                    /\ ~is_orderable_version(d.recommended_version[1]),
                Message("recommended_version", dep_id, d.recommended_version))

RECURSIVE AllDependencyErrors(_, _)
AllDependencyErrors(deps, i) ==
    IF i > Len(deps) THEN <<>>
    ELSE DependencyErrors(deps, i) \o AllDependencyErrors(deps, i + 1)

RECURSIVE IncompatibilityWarnings(_, _)
IncompatibilityWarnings(incompats, i) ==
    IF i > Len(incompats) THEN <<>>
    ELSE When(incompats[i].reason = "",
              Message("no reason",
                      incompats[i].product_group \o ":" \o incompats[i].product_name,
                      <<>>))
         \o IncompatibilityWarnings(incompats, i + 1)

\* The replication block of validate_manifest_data; an empty map is falsy.
ReplicationErrors(map) ==
    IF DOMAIN map = {} THEN <<>>
    ELSE LET desired == Get(map, "desired")
             min_val == Get(map, "min")
             max_val == Get(map, "max")
         IN  When(min_val # None /\ desired # None /\ min_val[1] > desired[1],
                  Message("replication", "min>desired", min_val \o desired))
             \o When(desired # None /\ max_val # None /\ desired[1] > max_val[1],
                     Message("replication", "desired>max", desired \o max_val))

validate_manifest_data(data) ==
    [errors |->
        When(data.product_group = "", Message("required", "product-group", <<>>))
        \o When(data.product_name = "", Message("required", "product-name", <<>>))
        \o When(data.product_version = "",
                Message("required", "product-version", <<>>))
        \o When(data.product_type = "", Message("required", "product-type", <<>>))
        \o When(data.product_version # ""
                    /\ ~is_orderable_version(data.product_version),
                Message("not orderable", "product-version", <<data.product_version>>))
        \o When(data.product_type # "" /\ data.product_type \notin VALID_TYPES,
                Message("unknown type", "product-type", <<data.product_type>>))
        \o ReplicationErrors(data.replication)
        \o AllDependencyErrors(data.product_dependencies, 1),
     warnings |-> IncompatibilityWarnings(data.product_incompatibilities, 1)]

(***************************************************************************)
(* _lock_file.py                                                            *)
(***************************************************************************)
LOCK_HEADER ==
    "# product-dependencies.lock\n# Run pants sls-lock to regenerate this file\n"

LockEntry(group, name, min, max, optional) ==
    [product_group |-> group, product_name |-> name, minimum_version |-> min,
     maximum_version |-> max, optional |-> optional]

to_line(entry) ==
    product_id(entry) \o " (" \o entry.minimum_version \o ", "
        \o entry.maximum_version \o ")"
        \o (IF entry.optional THEN " optional" ELSE "")

\* The loop body of generate_lock_file: one dependency to one LockEntry.
EntryOf(d) ==
    LockEntry(d.product_group, d.product_name, d.minimum_version,
              IF d.maximum_version = None
              THEN resolve_default_max_version(d.minimum_version)
              ELSE d.maximum_version[1],
              d.optional)

\* list.sort(key=product_id): a stable sort, so an entry goes after the
\* entries whose key is less than or equal to its own.
SortKeyLess(a, b) == StrLess(product_id(a), product_id(b))

InsertSorted(sorted, e) ==
    LET k == Cardinality({ i \in 1..Len(sorted) : ~SortKeyLess(e, sorted[i]) }) IN
    SubSeq(sorted, 1, k) \o <<e>> \o SubSeq(sorted, k + 1, Len(sorted))

RECURSIVE SortEntries(_)
SortEntries(es) ==
    IF es = <<>> THEN <<>>
    ELSE InsertSorted(SortEntries(SubSeq(es, 1, Len(es) - 1)), es[Len(es)])

generate_lock_file(deps) ==
    LET sorted == SortEntries([i \in 1..Len(deps) |-> EntryOf(deps[i])])
        lines == <<LOCK_HEADER>> \o [i \in 1..Len(sorted) |-> to_line(sorted[i])]
    IN  JoinLines(lines) \o "\n"

\* _LOCK_LINE_PATTERN applied with re.match to a stripped line.  group, name
\* and min end at the first character outside their class; \s* before max
\* is greedy and gives one character back when nothing else is left for max.
LOCK_LINE_PATTERN(s) ==
    LET g_end == Plus(s, 1, GroupChars)
        colon == Lit(s, g_end, ":")
        n_end == Star(s, One(s, colon, Lower), GroupChars)
        lparen == Lit(s, Plus(s, n_end, Whitespace), "(")
        min_end == Plus(s, lparen, Alphabet \ {","})
        comma == Lit(s, min_end, ",")
        ws_end == Star(s, comma, Whitespace)
        run_end == Star(s, ws_end, Alphabet \ {")"})
        max_start == IF run_end > ws_end THEN ws_end
                     ELSE IF ws_end > comma THEN ws_end - 1
                     ELSE 0
        max_end == IF max_start = 0 THEN 0
                   ELSE IF run_end > ws_end THEN run_end ELSE ws_end
        rparen == Lit(s, max_end, ")")
        opt_end == Lit(s, Plus(s, rparen, Whitespace), "optional")
        with_optional == Dollar(s, Star(s, opt_end, Whitespace))
        without_optional == Dollar(s, Star(s, rparen, Whitespace))
    IN  IF with_optional \/ without_optional
        THEN [matched |-> TRUE,
              group |-> SubSeq(s, 1, g_end - 1),
              name |-> SubSeq(s, colon, n_end - 1),
              min |-> SubSeq(s, lparen, min_end - 1),
              max |-> SubSeq(s, max_start, max_end - 1),
              optional |-> with_optional]
        ELSE [matched |-> FALSE, group |-> "", name |-> "", min |-> "",
              max |-> "", optional |-> FALSE]

\* A raise that hands over the entries parsed before the offending line.
ParseRaisedKeepsEntries(line_num, line, acc) ==
    [raised |-> TRUE, line_num |-> line_num, line |-> line, entries |-> acc]

\* raise ValueError(f"Invalid lock file line {line_num}: {line!r}"): the
\* entries list is a local and is lost.
ParseRaised(line_num, line, acc) ==
    [raised |-> TRUE, line_num |-> line_num, line |-> line, entries |-> <<>>]

\* The loop of parse_lock_file from line i on, acc the entries so far.
RECURSIVE ParseLines(_, _, _)
ParseLines(lines, i, acc) ==
    IF i > Len(lines)
    THEN [raised |-> FALSE, line_num |-> 0, line |-> "", entries |-> acc]
    ELSE LET stripped == Strip(lines[i]) IN
         IF stripped = "" \/ StartsWith(stripped, "#")
         THEN ParseLines(lines, i + 1, acc)
         ELSE LET m == LOCK_LINE_PATTERN(stripped) IN
              IF ~m.matched
              THEN ParseRaised(i, lines[i], acc)
              ELSE ParseLines(lines, i + 1,
                       Append(acc, LockEntry(m.group, m.name, Strip(m.min),
                                             Strip(m.max), m.optional)))

parse_lock_file(text) == ParseLines(SplitLines(text), 1, <<>>)

\* repr() of a str of the alphabet: single quotes, the control characters
\* escaped.
RECURSIVE Repr(_)
Repr(s) ==
    IF s = "" THEN ""
    ELSE (IF Char(s, 1) = "\t" THEN "\\t"
          ELSE IF Char(s, 1) = "\n" THEN "\\n"
          ELSE IF Char(s, 1) = "\r" THEN "\\r"
          ELSE Char(s, 1))
         \o Repr(SubSeq(s, 2, Len(s)))

\* str(exc) of the ValueError parse_lock_file raises.
ParseErrorMessage(p) ==
    "Invalid lock file line " \o ToString(p.line_num) \o ": '" \o Repr(p.line) \o "'"

\* The loop of validate_lock_file from entry i on; seen holds the product
\* ids of the entries before.
RECURSIVE LockEntryErrors(_, _, _, _)
LockEntryErrors(entries, i, seen, errors) ==
    IF i > Len(entries) THEN errors
    ELSE LET entry == entries[i]
             duplicate == IF product_id(entry) \in seen
                          THEN <<"Duplicate dependency in lock file: "
                                    \o product_id(entry)>>
                          ELSE <<>>
             no_min == IF entry.minimum_version = ""
                       THEN <<product_id(entry) \o ": empty minimum_version">>
                       ELSE <<>>
             no_max == IF entry.maximum_version = ""
                       THEN <<product_id(entry) \o ": empty maximum_version">>
                       ELSE <<>>
         IN  LockEntryErrors(entries, i + 1, seen \cup {product_id(entry)},
                             errors \o duplicate \o no_min \o no_max)

\* except ValueError as exc: return [str(exc)]
validate_lock_file(text) ==
    LET p == parse_lock_file(text)
    IN  IF p.raised THEN <<ParseErrorMessage(p)>>
        ELSE LockEntryErrors(p.entries, 1, {}, <<>>)

(***************************************************************************)
(* _check_script.py                                                         *)
(***************************************************************************)
CheckMode ==
    [CHECK_ARGS |-> "check_args", CHECK_COMMAND |-> "check_command",
     CHECK_SCRIPT |-> "check_script", NONE |-> "none"]

\* str.lstrip("\n")
RECURSIVE LStripNewlines(_)
LStripNewlines(s) ==
    IF Len(s) > 0 /\ Char(s, 1) = "\n" THEN LStripNewlines(SubSeq(s, 2, Len(s)))
    ELSE s

\* _CHECK_ARGS_SCRIPT.format(service_name=...): the lines that hold the
\* service name, and the first line; the constant lines between are left out.
CHECK_ARGS_SCRIPT(service_name) ==
    "#!/bin/bash\n#\n# Health check script for " \o service_name
        \o " (check_args mode).\n"
        \o "exec \"$LAUNCHER\" --check --service-name \"" \o service_name \o "\"\n"

\* _CHECK_COMMAND_SCRIPT.format(service_name=..., check_command=...), the
\* constant lines left out likewise.
CHECK_COMMAND_SCRIPT(service_name, check_command) ==
    "#!/bin/bash\n#\n# Health check script for " \o service_name
        \o " (check_command mode).\n"
        \o "cd \"$DIST_ROOT\"\nexec " \o check_command \o "\n"

CheckScriptResult(mode, check_script_content, source_path) ==
    [raised |-> FALSE, error |-> "", mode |-> mode,
     check_script_content |-> check_script_content, source_path |-> source_path]

CheckScriptRaised(message) ==
    [raised |-> TRUE, error |-> message, mode |-> "",
     check_script_content |-> None, source_path |-> None]

\* check_args is None or Some(tuple of strings); the other two are
\* Optional[str].  Every test is "is not None", so () and "" count as set.
\* A count that leaves check_script_path out.
set_count_two(check_args, check_command, check_script_path) ==
    (IF check_args # None THEN 1 ELSE 0)
        + (IF check_command # None THEN 1 ELSE 0)

set_count(check_args, check_command, check_script_path) ==
    (IF check_args # None THEN 1 ELSE 0)
        + (IF check_command # None THEN 1 ELSE 0)
        + (IF check_script_path # None THEN 1 ELSE 0)

generate_check_script(service_name, check_args, check_command, check_script_path) ==
    IF set_count(check_args, check_command, check_script_path) > 1
    THEN CheckScriptRaised(
            "Only one of check_args, check_command, or check_script_path may be set.")
    ELSE IF check_args # None
    THEN CheckScriptResult(CheckMode.CHECK_ARGS,
            Some(LStripNewlines(CHECK_ARGS_SCRIPT(service_name))), None)
    ELSE IF check_command # None
    THEN CheckScriptResult(CheckMode.CHECK_COMMAND,
            Some(LStripNewlines(
                CHECK_COMMAND_SCRIPT(service_name, check_command[1]))), None)
    ELSE IF check_script_path # None
    THEN CheckScriptResult(CheckMode.CHECK_SCRIPT, None, check_script_path)
    ELSE CheckScriptResult(CheckMode.NONE, None, None)

(***************************************************************************)
(* _hooks.py: hook path validation and the generated startup shim.  A dict  *)
(* is the sequence of its items in insertion order, with distinct keys.     *)
(***************************************************************************)
HOOK_PHASES ==
    <<"pre-configure", "configure", "pre-startup", "startup", "post-startup",
      "pre-shutdown", "shutdown">>

PhaseChars == Lower \cup {"-"}

HookNameChars == Lower \cup Upper \cup Digit \cup {"_", ".", "-"}

\* ^(?P<phase>[a-z-]+)\.d/(?P<name>[a-zA-Z0-9_.-]+\.sh)$ : the name class
\* holds "." so the run is given back until "\.sh" and "$" fit.
HOOK_PATH_RE(s) ==
    LET phase_end == Plus(s, 1, PhaseChars)
        name_start == Lit(s, phase_end, ".d/")
        run_end == Plus(s, name_start, HookNameChars)
        Fits(k) == k > name_start /\ Dollar(s, Lit(s, k, ".sh"))
    IN  IF run_end # 0 /\ \E k \in 1..run_end : Fits(k)
        THEN [matched |-> TRUE, phase |-> SubSeq(s, 1, phase_end - 1)]
        ELSE [matched |-> FALSE, phase |-> ""]

\* The message of the ValueError validate_hook_paths raises at the first
\* offending key, or "none" when it returns.
RECURSIVE validate_hook_paths(_)
validate_hook_paths(hooks) ==
    IF hooks = <<>> THEN "none"
    ELSE LET key == Head(hooks).key
             match == HOOK_PATH_RE(key) IN
         IF ~match.matched
         THEN "Invalid hook path '" \o key
                \o "': must match '<phase>.d/<name>.sh' (e.g., 'pre-startup.d/10-migrate.sh')"
         ELSE IF \A i \in 1..Len(HOOK_PHASES) : HOOK_PHASES[i] # match.phase
         THEN "Unknown hook phase '" \o match.phase \o "' in '" \o key
                \o "'. Valid phases: pre-configure, configure, pre-startup, "
                \o "startup, post-startup, pre-shutdown, shutdown"
         ELSE validate_hook_paths(Tail(hooks))

\* The f-string of generate_startup_script: first line and the lines that
\* hold the service name; the constant lines between are left out.
generate_startup_script(service_name) ==
    "#!/bin/sh\n# Auto-generated: Start python-service-launcher for "
        \o service_name \o "\n"
        \o "\"$LAUNCHER\" --service-name \"" \o service_name \o "\" &\n"

\* The embedded scripts, by their first lines.
get_entrypoint_script == "#!/bin/sh\n# entrypoint.sh\n"

get_hooks_library == "#!/bin/sh\n# hooks.sh\n"

(***************************************************************************)
(* _layout.py and _asset_layout.py                                          *)
(***************************************************************************)
LayoutFile(relative_path, file_content, source_path, executable) ==
    [relative_path |-> relative_path, content |-> file_content,
     source_path |-> source_path, executable |-> executable]

LayoutDirectory(relative_path) == [relative_path |-> relative_path]

SlsLayout(dist_name, files, directories) ==
    [raised |-> FALSE, dist_name |-> dist_name, files |-> files,
     directories |-> directories]

\* A dict is truthy when it is neither None nor empty.
TruthyItems(o) == o # None /\ o[1] # <<>>

\* One add_file or add_directory when cond holds, none otherwise.
AddIf(cond, entry) == IF cond THEN <<entry>> ELSE <<>>

\* for hook_path, source_path in hook_scripts.items(): add_file(...)
HookScriptFiles(items) ==
    [i \in 1..Len(items) |->
        LayoutFile("hooks/" \o items[i].key, None, Some(items[i].source), TRUE)]

\* for phase in HOOK_PHASES: add_directory(f"hooks/{phase}.d")
PhaseDirectories ==
    [i \in 1..Len(HOOK_PHASES) |->
        LayoutDirectory("hooks/" \o HOOK_PHASES[i] \o ".d")]

build_layout(kw) ==
    LET directories ==
            <<LayoutDirectory("var/data/tmp"), LayoutDirectory("var/log"),
              LayoutDirectory("var/run")>>
            \o (IF kw.hook_entrypoint_content # None
                THEN PhaseDirectories
                     \o <<LayoutDirectory("var/state"),
                          LayoutDirectory("var/metrics")>>
                ELSE <<>>)
        files ==
            <<LayoutFile("deployment/manifest.yml", Some(kw.manifest_yaml),
                         None, FALSE)>>
            \o AddIf(kw.lock_file_content # None,
                     LayoutFile("deployment/product-dependencies.lock",
                                kw.lock_file_content, None, FALSE))
            \o <<LayoutFile("service/bin/init.sh", Some(kw.init_script),
                            None, TRUE),
                 LayoutFile("service/bin/launcher-static.yml",
                            Some(kw.launcher_static_yaml), None, FALSE)>>
            \o AddIf(kw.launcher_check_yaml # None,
                     LayoutFile("service/bin/launcher-check.yml",
                                kw.launcher_check_yaml, None, FALSE))
            \o (IF kw.check_script_content # None
                THEN <<LayoutFile("service/monitoring/bin/check.sh",
                                  kw.check_script_content, None, TRUE)>>
                ELSE IF kw.check_script_source # None
                THEN <<LayoutFile("service/monitoring/bin/check.sh", None,
                                  kw.check_script_source, TRUE)>>
                ELSE <<>>)
            \o AddIf(kw.hook_entrypoint_content # None,
                     LayoutFile("service/bin/entrypoint.sh",
                                kw.hook_entrypoint_content, None, TRUE))
            \o AddIf(kw.hook_library_content # None,
                     LayoutFile("service/lib/hooks.sh",
                                kw.hook_library_content, None, FALSE))
            \o AddIf(kw.hook_startup_content # None,
                     LayoutFile("hooks/startup.d/00-main.sh",
                                kw.hook_startup_content, None, TRUE))
            \o (IF TruthyItems(kw.hook_scripts)
                THEN HookScriptFiles(kw.hook_scripts[1])
                ELSE <<>>)
    IN  SlsLayout(kw.product_name \o "-" \o kw.product_version, files,
                  directories)

\* for mapping in asset_mappings: add_file(f"asset/{mapping.dest_path}", ...)
AssetFiles(mappings) ==
    [i \in 1..Len(mappings) |->
        LayoutFile("asset/" \o mappings[i].dest_path, None,
                   Some(mappings[i].source_path), FALSE)]

build_asset_layout(kw) ==
    LET files ==
            <<LayoutFile("deployment/manifest.yml", Some(kw.manifest_yaml),
                         None, FALSE)>>
            \o AddIf(kw.lock_file_content # None,
                     LayoutFile("deployment/product-dependencies.lock",
                                kw.lock_file_content, None, FALSE))
            \o (IF TruthyItems(kw.asset_mappings)
                THEN AssetFiles(kw.asset_mappings[1])
                ELSE <<>>)
    IN  SlsLayout(kw.product_name \o "-" \o kw.product_version, files,
                  <<LayoutDirectory("asset")>>)

(***************************************************************************)
(* rules/manifest.py and rules/package.py: the packaging pipeline.  The     *)
(* texts yaml.dump and the init script template produce are written by      *)
(* their identifying lines only.                                            *)
(***************************************************************************)
generate_init_script(service_name) ==
    LStripNewlines("#!/bin/bash\n#\n# SLS init script for " \o service_name \o ".\n")

LauncherYaml(executable) ==
    "configType: python\nconfigVersion: 1\nexecutable: " \o executable \o "\n"

RECURSIVE YamlList(_)
YamlList(items) ==
    IF items = <<>> THEN "" ELSE "- " \o Head(items) \o "\n" \o YamlList(Tail(items))

CheckLauncherYaml(executable, args) ==
    LauncherYaml(executable)
        \o (IF args = <<>> THEN "args: []\n" ELSE "args:\n" \o YamlList(args))

ManifestYaml(group, name, ver) ==
    "product-group: " \o group \o "\nproduct-name: " \o name
        \o "\nproduct-version: " \o ver \o "\n"

\* _resolve_product_dependency: an absent maximum is derived from a
\* non-empty minimum.
resolve_product_dependency(target) ==
    [target EXCEPT !.maximum_version =
        IF target.maximum_version = None /\ target.minimum_version # ""
        THEN Some(resolve_default_max_version(target.minimum_version))
        ELSE target.maximum_version]

\* The rule the first invalid dependency of the loop raises for, or "none".
RECURSIVE FirstDependencyError(_)
FirstDependencyError(targets) ==
    IF targets = <<>> THEN "none"
    ELSE LET error == validate_dependency(resolve_product_dependency(Head(targets)))
         IN  IF error # "none" THEN error ELSE FirstDependencyError(Tail(targets))

\* The replication dict generate_manifest builds from the three fields.
ReplicationOf(fs) ==
    LET field == [desired |-> fs.replication_desired, min |-> fs.replication_min,
                  max |-> fs.replication_max]
        keys == { k \in {"desired", "min", "max"} : field[k] # None }
    IN  [k \in keys |-> field[k][1]]

NoSlsManifest ==
    [raised |-> FALSE, error |-> "", content |-> "", product_name |-> "",
     product_version |-> "", product_dependencies |-> <<>>]

ManifestRaised(message) ==
    [raised |-> TRUE, error |-> message, content |-> "", product_name |-> "",
     product_version |-> "", product_dependencies |-> <<>>]

generate_manifest(fs) ==
    LET identity == validate_manifest_identity(fs.product_group, fs.product_name,
                                               fs.version)
        check_count ==
            (IF fs.check_args # None THEN 1 ELSE 0)
            + (IF fs.check_command # None THEN 1 ELSE 0)
            + (IF fs.check_script # None THEN 1 ELSE 0)
        dep_failure == FirstDependencyError(fs.product_dependencies)
        map == ReplicationOf(fs)
    IN  IF identity # "none" THEN ManifestRaised(identity)
        ELSE IF check_count > 1
        THEN ManifestRaised(
                "Only one of check_args, check_command, or check_script may be set.")
        ELSE IF dep_failure # "none" THEN ManifestRaised(dep_failure)
        ELSE IF DOMAIN map # {} /\ validate_replication(map) # "none"
        THEN ManifestRaised(validate_replication(map))
        ELSE [raised |-> FALSE, error |-> "",
              content |-> ManifestYaml(fs.product_group, fs.product_name, fs.version),
              product_name |-> fs.product_name, product_version |-> fs.version,
              product_dependencies |->
                  [i \in 1..Len(fs.product_dependencies) |->
                      resolve_product_dependency(fs.product_dependencies[i])]]

NoCheckResult == CheckScriptResult("", None, None)

NoLayoutKwargs ==
    [product_name |-> "", product_version |-> "", manifest_yaml |-> "",
     launcher_static_yaml |-> "", init_script |-> "",
     check_script_content |-> None, check_script_source |-> None,
     launcher_check_yaml |-> None, lock_file_content |-> None,
     hook_entrypoint_content |-> None, hook_library_content |-> None,
     hook_startup_content |-> None, hook_scripts |-> None]

NoLayout == SlsLayout("", <<>>, <<>>)

RaisedLayout == [NoLayout EXCEPT !.raised = TRUE]

\* check_args passed on as it is, an empty sequence included.
CheckArgsPassedAsIs(check_args) == check_args

\* tuple(check_args) if check_args else None
CheckArgsPassed(check_args) ==
    IF TruthyItems(check_args) THEN check_args ELSE None

\* pex_binary or f"service/bin/{product_name}.pex"
Executable(fs, product_name) ==
    IF Truthy(fs.pex_binary) THEN fs.pex_binary[1]
    ELSE "service/bin/" \o product_name \o ".pex"

\* assemble_sls_package up to its call of generate_check_script; nothing is
\* generated when generate_manifest raised.
PackageCheckScript(fs, m) ==
    IF m.raised THEN NoCheckResult
    ELSE generate_check_script(m.product_name,
                               CheckArgsPassed(fs.check_args),
                               fs.check_command, fs.check_script)

\* assemble_sls_package without its call of validate_hook_paths.
PackageErrorUnvalidatedHooks(fs, m, result) ==
    IF m.raised THEN m.error
    ELSE IF result.raised THEN result.error
    ELSE ""

\* The error that ends assemble_sls_package before build_layout, or "".
PackageError(fs, m, result) ==
    IF m.raised THEN m.error
    ELSE IF result.raised THEN result.error
    ELSE IF TruthyItems(fs.hooks) /\ validate_hook_paths(fs.hooks[1]) # "none"
    THEN validate_hook_paths(fs.hooks[1])
    ELSE ""

\* The arguments assemble_sls_package gives build_layout.
PackageKwargs(fs, m, result) ==
    [product_name |-> m.product_name,
     product_version |-> m.product_version,
     manifest_yaml |-> m.content,
     launcher_static_yaml |->
        LauncherYaml(Executable(fs, m.product_name)),
     init_script |-> generate_init_script(m.product_name),
     check_script_content |-> result.check_script_content,
     check_script_source |-> result.source_path,
     launcher_check_yaml |->
        IF result.mode = CheckMode.CHECK_ARGS /\ TruthyItems(fs.check_args)
        THEN Some(CheckLauncherYaml(Executable(fs, m.product_name),
                                    fs.check_args[1]))
        ELSE None,
     lock_file_content |->
        IF m.product_dependencies # <<>>
        THEN Some(generate_lock_file(m.product_dependencies))
        ELSE None,
     hook_entrypoint_content |->
        IF TruthyItems(fs.hooks) THEN Some(get_entrypoint_script) ELSE None,
     hook_library_content |->
        IF TruthyItems(fs.hooks) THEN Some(get_hooks_library) ELSE None,
     hook_startup_content |->
        IF TruthyItems(fs.hooks)
        THEN Some(generate_startup_script(m.product_name))
        ELSE None,
     hook_scripts |-> IF TruthyItems(fs.hooks) THEN fs.hooks ELSE None]

(***************************************************************************)
(* hooks.sh, the library get_hooks_library returns.  A hook directory is    *)
(* None when it does not exist and otherwise <<entries>>, the entries that  *)
(* match *.sh in glob order; an entry tells whether it is a regular file,   *)
(* whether it is executable, the exit code it gives when it is run, and     *)
(* whether it starts the main process in the background and writes its PID  *)
(* to main.pid, as startup.d/00-main.sh does.                               *)
(***************************************************************************)
HookEntry(name, is_file, is_executable, rc, launches) ==
    [name |-> name, is_file |-> is_file, is_executable |-> is_executable,
     rc |-> rc, launches |-> launches, pid_written |-> launches]

\* [ -f "$_script" ] || continue; [ -x "$_script" ] || continue
IsRun(entry) == entry.is_file /\ entry.is_executable

HooksResult(rc, ran, metric) == [rc |-> rc, ran |-> ran, metric |-> metric]

\* return 1 for a failing hook, whatever its exit code.
HookFailureCodeOne(rc) == 1

\* return "$_rc"
HookFailureCode(rc) == rc

\* The loop of run_hooks from entry i on; ran holds the hooks run so far.
RECURSIVE RunHooksLoop(_, _, _)
RunHooksLoop(entries, i, ran) ==
    IF i > Len(entries) THEN HooksResult(0, ran, None)
    ELSE IF ~IsRun(entries[i]) THEN RunHooksLoop(entries, i + 1, ran)
    ELSE IF entries[i].rc # 0
    THEN HooksResult(HookFailureCode(entries[i].rc), Append(ran, entries[i]), None)
    ELSE RunHooksLoop(entries, i + 1, Append(ran, entries[i]))

run_hooks(dir) ==
    IF dir = None THEN HooksResult(0, <<>>, None)
    ELSE RunHooksLoop(dir[1], 1, <<>>)

\* The loop of run_hooks_timed: it breaks at the first failing hook.
RECURSIVE RunHooksTimedLoop(_, _, _)
RunHooksTimedLoop(entries, i, ran) ==
    IF i > Len(entries) THEN ran
    ELSE IF ~IsRun(entries[i]) THEN RunHooksTimedLoop(entries, i + 1, ran)
    ELSE IF entries[i].rc # 0 THEN Append(ran, entries[i])
    ELSE RunHooksTimedLoop(entries, i + 1, Append(ran, entries[i]))

\* The {"hook":...,"ms":...,"rc":...} items of the phase record, without
\* the times.
HookTimings(ran) == [i \in 1..Len(ran) |-> [hook |-> ran[i].name, rc |-> ran[i].rc]]

\* _failed="$_name" is set for a failing hook; the name is never empty.
PhaseFailed(ran) == ran # <<>> /\ ran[Len(ran)].rc # 0

\* phase is the directory's base name without ".d"; the record written to
\* ${HOOK_METRIC_DIR}/<phase>.json is the metric of the result.
run_hooks_timed(phase, dir) ==
    IF dir = None THEN HooksResult(0, <<>>, None)
    ELSE LET ran == RunHooksTimedLoop(dir[1], 1, <<>>)
         IN  HooksResult(IF PhaseFailed(ran) THEN 1 ELSE 0, ran,
                         Some([phase |-> phase,
                               status |-> IF PhaseFailed(ran) THEN "failed"
                                          ELSE "ok",
                               hooks |-> HookTimings(ran)]))

\* The loop of run_hooks_warn: every hook that passes the tests is run.
RECURSIVE RunHooksWarnLoop(_, _, _)
RunHooksWarnLoop(entries, i, ran) ==
    IF i > Len(entries) THEN ran
    ELSE IF ~IsRun(entries[i]) THEN RunHooksWarnLoop(entries, i + 1, ran)
    ELSE RunHooksWarnLoop(entries, i + 1, Append(ran, entries[i]))

run_hooks_warn(dir) ==
    IF dir = None THEN HooksResult(0, <<>>, None)
    ELSE HooksResult(0, RunHooksWarnLoop(dir[1], 1, <<>>), None)

(***************************************************************************)
(* entrypoint.sh, the script get_entrypoint_script returns.  The script is  *)
(* followed from one command that waits (a hook, sleep 1, wait) to the      *)
(* next: a trapped TERM or INT is taken when such a command returns.  The   *)
(* main process is the one whose PID a startup.d hook wrote to main.pid.    *)
(***************************************************************************)
\* ${SHUTDOWN_GRACE_SECONDS:-10}
DEFAULT_GRACE == 10

\* A grace period that SHUTDOWN_GRACE_SECONDS does not configure.
GraceSecondsDefaultOnly(env) == DEFAULT_GRACE

\* _grace="${SHUTDOWN_GRACE_SECONDS:-10}"
GraceSeconds(env) == IF env = None THEN DEFAULT_GRACE ELSE env[1]

PhaseIndex(phase) == CHOOSE p \in 1..Len(HOOK_PHASES) : HOOK_PHASES[p] = phase

\* One entry of the history of an execution of entrypoint.sh: a phase that
\* returned rc after it ran n hooks ("phase"), a phase a trap cut short
\* after its n-th hook ("interrupted"), or a step of the script.
Event(e, phase, n, rc) == [e |-> e, phase |-> phase, n |-> n, rc |-> rc]

Step(e) == Event(e, "", 0, 0)

\* Some hook that was run started the main process.
Launches(ran) == \E i \in 1..Len(ran) : ran[i].launches

\* Some hook that was run wrote main.pid.
WritesPid(ran) == \E i \in 1..Len(ran) : ran[i].pid_written

\* The guard of _shutdown that is never taken.
ShutdownInProgressNever(in_progress) == FALSE

\* if [ -n "$SHUTDOWN_IN_PROGRESS" ]; then return; fi
ShutdownInProgress(in_progress) == in_progress # ""

\* [ -n "$MAIN_PID" ] && kill -0 "$MAIN_PID"
MainAlive(pid, process) == pid # "" /\ process = "alive"

\* The state of an entrypoint.sh that has installed its trap and created
\* its directories, started with SHUTDOWN_GRACE_SECONDS as env says.
EntryStarted(env) ==
    [pc |-> "pre-configure", grace_env |-> env, MAIN_PID |-> "",
     SHUTDOWN_IN_PROGRESS |-> "", waited |-> 0, main_process |-> "none",
     state_files |-> {}, signals |-> 0, exit_code |-> None, trace |-> <<>>]

(***************************************************************************)
(* Platform detection of init.sh and of startup.d/00-main.sh.  A platform   *)
(* is what uname -s and uname -m print and the set of paths, relative to    *)
(* the distribution root, at which an executable file exists.               *)
(***************************************************************************)
UpperLetters == "ABCDEFGHIJKLMNOPQRSTUVWXYZ"

LowerLetters == "abcdefghijklmnopqrstuvwxyz"

\* tr '[:upper:]' '[:lower:]'
RECURSIVE Tr(_)
Tr(s) ==
    IF s = "" THEN ""
    ELSE (IF Char(s, 1) \in Upper
          THEN Char(LowerLetters, Find(UpperLetters, Char(s, 1), 1))
          ELSE Char(s, 1))
         \o Tr(SubSeq(s, 2, Len(s)))

\* The case statement of detect_launcher; None is its *) branch, exit 1.
InitArch(uname_m) ==
    IF uname_m \in {"x86_64", "amd64"} THEN Some("amd64")
    ELSE IF uname_m \in {"aarch64", "arm64"} THEN Some("arm64")
    ELSE None

Detected(exit_code, launcher) == [exit_code |-> exit_code, launcher |-> launcher]

\* _launcher_binary.py
LAUNCHER_BINARY_NAME == "python-service-launcher"

LAUNCHER_PLATFORMS ==
    << <<"darwin", "amd64">>, <<"darwin", "arm64">>, <<"linux", "amd64">>,
       <<"linux", "arm64">> >>

launcher_layout_path(os_name, arch) ==
    "service/bin/" \o os_name \o "-" \o arch \o "/" \o LAUNCHER_BINARY_NAME

\* The absolute path of a file of the layout in an unpacked distribution.
Installed(path) == "/dist/" \o path

\* The path of a file below the distribution root, relative to the root.
InDistribution(path) ==
    IF StartsWith(path, Installed("")) THEN SubSeq(path, Len(Installed("")) + 1, Len(path))
    ELSE path

\* dirname of a path that does not end in "/"
RECURSIVE Dirname(_)
Dirname(path) ==
    IF path = "" THEN "."
    ELSE IF Char(path, Len(path)) = "/"
    THEN (IF Len(path) = 1 THEN "/" ELSE SubSeq(path, 1, Len(path) - 1))
    ELSE Dirname(SubSeq(path, 1, Len(path) - 1))

\* init.sh: SCRIPT_DIR="$(cd "$(dirname "${BASH_SOURCE[0]}")" && pwd)"
INIT_SCRIPT_DIR == Dirname(Installed("service/bin/init.sh"))

\* init.sh: local launcher="${SCRIPT_DIR}/${os}-${arch}/go-python-launcher"
init_launcher(os, arch) ==
    InDistribution(INIT_SCRIPT_DIR \o "/" \o os \o "-" \o arch
                        \o "/go-python-launcher")

\* check.sh: SCRIPT_DIR, MONITORING_DIR, SERVICE_DIR, DIST_ROOT
CHECK_DIST_ROOT ==
    Dirname(Dirname(Dirname(Dirname(Installed("service/monitoring/bin/check.sh")))))

\* check.sh: local launcher="${DIST_ROOT}/service/bin/${os}-${arch}/..."
check_launcher(os, arch) ==
    InDistribution(CHECK_DIST_ROOT \o "/service/bin/" \o os \o "-" \o arch
                        \o "/python-service-launcher")

\* entrypoint.sh: SERVICE_ROOT="${SERVICE_ROOT:-$(cd "$SCRIPT_DIR/../.." && pwd)}"
SERVICE_ROOT == Dirname(Dirname(Dirname(Installed("service/bin/entrypoint.sh"))))

\* 00-main.sh: LAUNCHER="${SERVICE_ROOT}/service/bin/${os}-${arch}/..."
shim_launcher(os, arch) ==
    InDistribution(SERVICE_ROOT \o "/service/bin/" \o os \o "-" \o arch
                        \o "/python-service-launcher")

\* detect_launcher of check.sh: both failures exit 2; the path it resolved
\* is kept when the file is missing.
check_detect_launcher(host) ==
    LET os == Tr(host.uname_s)
        arch == InitArch(host.uname_m)
    IN  IF arch = None THEN Detected(2, "")
        ELSE IF check_launcher(os, arch[1]) \notin host.executables
        THEN Detected(2, check_launcher(os, arch[1]))
        ELSE Detected(0, check_launcher(os, arch[1]))

\* LAUNCHER="$(detect_launcher)": under set -e the script exits with the
\* exit code of detect_launcher when that is not 0.
detect_launcher(host) ==
    LET os == Tr(host.uname_s)
        arch == InitArch(host.uname_m)
        launcher == init_launcher(os, arch[1])
    IN  IF arch = None THEN Detected(1, "")
        ELSE IF launcher \notin host.executables THEN Detected(1, "")
        ELSE Detected(0, launcher)

\* The case statement of 00-main.sh: it has no *) branch.
ShimArch(uname_m) ==
    IF uname_m \in {"x86_64", "amd64"} THEN "amd64"
    ELSE IF uname_m \in {"aarch64", "arm64"} THEN "arm64"
    ELSE uname_m

\* One run of the script generate_startup_script returns: the launcher is
\* started in the background, which forks whether or not the file can be
\* executed, and $! is written to main.pid.
StartupShim(host) ==
    LET os == Tr(host.uname_s)
        launcher == shim_launcher(os, ShimArch(host.uname_m))
    IN  [exit_code |-> 0, launcher |-> launcher, pid_written |-> TRUE,
         launcher_started |-> launcher \in host.executables]

(***************************************************************************)
(* init.sh, the script generate_init_script returns.  init.pc is "shell"    *)
(* between two commands and otherwise names the sleep the running command   *)
(* is in; the PID file is None when absent and otherwise <<content>>.       *)
(***************************************************************************)
\* The process is alive whatever the file says.
is_running_file_only(PID_FILE, alive) == PID_FILE # None /\ PID_FILE[1] # ""

is_running(PID_FILE, alive) ==
    PID_FILE # None /\ PID_FILE[1] # "" /\ PID_FILE[1] \in alive

Running(i) == is_running(i.PID_FILE, i.alive)

\* The command returns, or exits, with a code.
Returned(i, code) == [i EXCEPT !.pc = "shell", !.exit_code = Some(code)]

\* do_start that launches without asking is_running.
do_start_unguarded(i) ==
    LET pid == ToString(i.launched + 1)
    IN  [i EXCEPT !.pc = "do_start sleep", !.launched = @ + 1,
                  !.alive = @ \cup {pid}, !.PID_FILE = Some(pid), !.pid = pid,
                  !.log = @ \o <<"do_start", "launch">>]

\* do_start up to its sleep 1.
do_start(i) ==
    IF Running(i) THEN Returned([i EXCEPT !.log = Append(@, "do_start")], 0)
    ELSE LET pid == ToString(i.launched + 1)
         IN  [i EXCEPT !.pc = "do_start sleep", !.launched = @ + 1,
                       !.alive = @ \cup {pid}, !.PID_FILE = Some(pid), !.pid = pid,
                       !.log = @ \o <<"do_start", "launch">>]

\* do_start after its sleep 1.
do_start_check(i) == IF Running(i) THEN Returned(i, 0) ELSE Returned(i, 1)

\* do_stop has returned 0: restart goes on with do_start.
do_stop_returned(i) ==
    IF i.command = "restart" THEN do_start(i) ELSE Returned(i, 0)

\* do_stop up to its polling loop.
do_stop(i) ==
    IF ~Running(i)
    THEN do_stop_returned([i EXCEPT !.PID_FILE = None,
                                    !.log = @ \o <<"do_stop", "rm">>])
    ELSE [i EXCEPT !.pc = "do_stop loop", !.pid = i.PID_FILE[1], !.waited = 0,
                   !.log = @ \o <<"do_stop", "kill -TERM">>]

\* KILL is sent whether or not the process is still alive.
stop_kills_always(i) == TRUE

\* if is_running; then ... kill -KILL "$pid"
stop_kills(i) == Running(i)

\* do_stop after its polling loop.
do_stop_end(i) ==
    do_stop_returned(
        IF stop_kills(i)
        THEN [i EXCEPT !.alive = @ \ {i.pid}, !.PID_FILE = None,
                       !.log = @ \o <<"kill -KILL", "sleep 1", "rm">>]
        ELSE [i EXCEPT !.PID_FILE = None, !.log = Append(@, "rm")])

do_status(i) ==
    IF Running(i) THEN Returned([i EXCEPT !.log = Append(@, "do_status")], 0)
    ELSE Returned([i EXCEPT !.PID_FILE = None,
                            !.log = @ \o <<"do_status", "rm">>], 1)

\* exec replaces the shell by the launcher, which runs in the foreground.
do_console(i) ==
    IF Running(i) THEN Returned([i EXCEPT !.log = Append(@, "do_console")], 1)
    ELSE LET pid == ToString(i.launched + 1)
         IN  [i EXCEPT !.pc = "console", !.launched = @ + 1,
                       !.alive = @ \cup {pid}, !.pid = pid,
                       !.log = @ \o <<"do_console", "exec">>]

INIT_COMMANDS == {"start", "stop", "console", "status", "restart"}

\* The case statement at the end of init.sh.
Dispatch(i) ==
    IF i.command = "start" THEN do_start(i)
    ELSE IF i.command = "stop" THEN do_stop(i)
    ELSE IF i.command = "console" THEN do_console(i)
    ELSE IF i.command = "status" THEN do_status(i)
    ELSE IF i.command = "restart" THEN do_stop(i)
    ELSE Returned(i, 1)

\* init.sh is run with one argument: the top-level code, then the command.
\* before holds the PID file and the live processes the run found.
RunInitScript(i, command) ==
    LET run == [i EXCEPT !.command = command, !.commands = @ + 1,
                         !.exit_code = None, !.log = <<>>, !.waited = 0,
                         !.before = [PID_FILE |-> i.PID_FILE, alive |-> i.alive]]
    IN  IF detect_launcher(i.platform).exit_code # 0
        THEN Returned(run, detect_launcher(i.platform).exit_code)
        ELSE Dispatch(run)

\* An installed init.sh before its first run.
InitInstalled(host, shutdown_timeout, PID_FILE) ==
    [pc |-> "shell", platform |-> host, shutdown_timeout |-> shutdown_timeout,
     PID_FILE |-> PID_FILE, alive |-> {}, launched |-> 0, command |-> "",
     commands |-> 0, pid |-> "", waited |-> 0, exit_code |-> None, log |-> <<>>,
     before |-> [PID_FILE |-> PID_FILE, alive |-> {}]]

(***************************************************************************)
(* The state in which no script has been run.                               *)
(***************************************************************************)
NoHooksResult == HooksResult(0, <<>>, None)

HooksIdle ==
    /\ hooks_pc = "start"
    /\ hook_dir = None
    /\ hook_result = NoHooksResult

EntryIdle == entrypoint = EntryStarted(None)

NoPlatform == [uname_s |-> "", uname_m |-> "", executables |-> {}]

NotRun == [ran |-> FALSE, exit_code |-> 0, launcher |-> "",
           pid_written |-> FALSE, launcher_started |-> FALSE]

\* No init.sh command has been started at the same time as another.
NoInvocations ==
    [PID_FILE |-> None, alive |-> {}, termed |-> {}, launched |-> 0,
     proc |-> <<>>, overlapped |-> FALSE, stop |-> "none"]

InitIdle ==
    /\ init = InitInstalled(NoPlatform, 0, None)
    /\ invocations = NoInvocations

PlatformIdle ==
    /\ platform = NoPlatform
    /\ init_detect = NotRun
    /\ shim_run = NotRun
    /\ check_run = NotRun

ScriptIdle == HooksIdle /\ EntryIdle /\ InitIdle /\ PlatformIdle

(***************************************************************************)
(* The state in which the validators have not been called.                  *)
(***************************************************************************)
NoManifest ==
    [product_group |-> "", product_name |-> "", product_version |-> "",
     product_type |-> "", replication |-> <<>>, product_dependencies |-> <<>>,
     product_incompatibilities |-> <<>>]

NoReport == [errors |-> <<>>, warnings |-> <<>>]

\* A ManifestData with the five required fields and every default.
MinimalManifestData ==
    [manifest_version |-> "1.0", product_type |-> "helm.v1",
     product_group |-> "com.example", product_name |-> "my-service",
     product_version |-> "1.0.0", display_name |-> None, description |-> None,
     traits |-> <<>>, labels |-> <<>>, annotations |-> <<>>,
     resource_requests |-> <<>>, resource_limits |-> <<>>, replication |-> <<>>,
     endpoints |-> <<>>, volumes |-> <<>>, secrets |-> <<>>,
     product_dependencies |-> <<>>, product_incompatibilities |-> <<>>,
     artifacts |-> <<>>, extensions |-> <<>>]

NoDependency ==
    [product_group |-> "", product_name |-> "", minimum_version |-> "",
     maximum_version |-> None, recommended_version |-> None, optional |-> FALSE]

ValidIdle ==
    /\ valid_pc = "start"
    /\ version = ""
    /\ orderable = FALSE
    /\ dep = NoDependency
    /\ dep_error = "none"
    /\ replication = <<>>
    /\ replication_error = "none"
    /\ manifest = NoManifest
    /\ report = NoReport
    /\ manifest_data = MinimalManifestData
    /\ manifest_doc = <<>>

NoCheckKwargs ==
    [service_name |-> "", check_args |-> None, check_command |-> None,
     check_script_path |-> None]

NoAssetKwargs ==
    [product_name |-> "", product_version |-> "", manifest_yaml |-> "",
     lock_file_content |-> None, asset_mappings |-> None]

NoFieldSet ==
    [product_group |-> "", product_name |-> "", version |-> "",
     check_args |-> None, check_command |-> None, check_script |-> None,
     product_dependencies |-> <<>>, replication_desired |-> None,
     replication_min |-> None, replication_max |-> None, pex_binary |-> None,
     hooks |-> None]

LayoutIdle ==
    /\ layout_pc = "start"
    /\ check_kwargs = NoCheckKwargs
    /\ check_result = NoCheckResult
    /\ layout_kwargs = NoLayoutKwargs
    /\ asset_kwargs = NoAssetKwargs
    /\ field_set = NoFieldSet
    /\ sls_manifest = NoSlsManifest
    /\ package_error = ""
    /\ layout = NoLayout

(***************************************************************************)
(* Inputs of the lock codec.                                                *)
(***************************************************************************)
GroupInputs == {"a", "a.b"}

NameInputs == {"c"}

MinVersionInputs == {"1.0.0", "2.1.0"}

MaxVersionInputs == {None, Some("2.1.0"), Some("3.x.x)")}

DepInputs ==
    [product_group : GroupInputs, product_name : NameInputs,
     minimum_version : MinVersionInputs, maximum_version : MaxVersionInputs,
     recommended_version : {None}, optional : BOOLEAN]

DepSeqs == UNION { [1..n -> DepInputs] : n \in 0..MaxDeps }

Permutation(n) ==
    { f \in [1..n -> 1..n] : \A i, j \in 1..n : i # j => f[i] # f[j] }

NotParsed == [raised |-> FALSE, line_num |-> 0, line |-> "", entries |-> <<>>]

(***************************************************************************)
(* The lock codec as a state machine: a lock file is generated, may be      *)
(* regenerated from the same dependencies in another order, and is parsed.  *)
(***************************************************************************)
\* Lines of a lock file written by hand: blank, comment, entries with and
\* without surrounding whitespace, with an empty version, and other text.
LockLineInputs ==
    {"", "  # c", "a:c (1.0.0, 2.x.x)", " a:c ( 1.0.0 ,  2.x.x )  optional ",
     "b:d (1.0.0, 2.x.x) optional", "a:c ( , 2.x.x)", "b:d (1.0.0,  )",
     "bogus line", "\ta:c (1.0.0)"}

LockTextInputs ==
    { JoinLines(lines) :
        lines \in UNION { [1..n -> LockLineInputs] : n \in 0..MaxLockLines } }

LockIdle ==
    /\ lock_pc = "start"
    /\ dependencies = <<>>
    /\ content = ""
    /\ parsed = NotParsed
    /\ lock_errors = <<>>

LockInit == LockIdle /\ ValidIdle /\ LayoutIdle /\ ScriptIdle

GenerateLockFile ==
    /\ lock_pc = "start"
    /\ \E deps \in DepSeqs :
        /\ dependencies' = deps
        /\ content' = generate_lock_file(deps)
    /\ lock_pc' = "generated"
    /\ UNCHANGED <<parsed, lock_errors, valid_vars, layout_vars,
                   script_vars>>

RegenerateLockFile ==
    /\ lock_pc = "generated"
    /\ \E p \in Permutation(Len(dependencies)) :
        LET deps == [i \in 1..Len(dependencies) |-> dependencies[p[i]]] IN
        /\ dependencies' = deps
        /\ content' = generate_lock_file(deps)
    /\ UNCHANGED <<lock_pc, parsed, lock_errors, valid_vars, layout_vars,
                   script_vars>>

ParseLockFile ==
    /\ lock_pc = "generated"
    /\ parsed' = parse_lock_file(content)
    /\ lock_pc' = "parsed"
    /\ UNCHANGED <<dependencies, content, lock_errors, valid_vars, layout_vars,
                   script_vars>>

\* A lock file is written by hand.
WriteLockFile ==
    /\ lock_pc = "start"
    /\ content' \in LockTextInputs
    /\ lock_pc' = "written"
    /\ UNCHANGED <<dependencies, parsed, lock_errors, valid_vars, layout_vars,
                   script_vars>>

\* parse_lock_file on a lock file written by hand.
ParseLockText ==
    /\ lock_pc = "written"
    /\ parsed' = parse_lock_file(content)
    /\ lock_pc' = "parsed_text"
    /\ UNCHANGED <<dependencies, content, lock_errors, valid_vars, layout_vars,
                   script_vars>>

\* validate_lock_file on a generated or a hand-written lock file.
ValidateLockFile ==
    /\ lock_pc \in {"generated", "written"}
    /\ lock_errors' = validate_lock_file(content)
    /\ lock_pc' = "validated"
    /\ UNCHANGED <<dependencies, content, parsed, valid_vars, layout_vars,
                   script_vars>>

LockNext ==
    \/ GenerateLockFile
    \/ RegenerateLockFile
    \/ ParseLockFile
    \/ WriteLockFile
    \/ ParseLockText
    \/ ValidateLockFile

SpecLock == LockInit /\ [][LockNext]_vars

(***************************************************************************)
(* Inputs of the validators.                                                *)
(***************************************************************************)
VersionPrefixInputs == {"", "v", "\n", " "}

VersionCoreInputs == {"1.0.0", "10.20.30", "1.0", "1.0.0.0", "1.x.x", ""}

VersionRcInputs == {"", "-rc1", "-rc", "-beta1"}

VersionGitInputs == {"", "-5-gabc", "-5-gABC", "-5-g", "-gabc"}

VersionSuffixInputs == {"", "\n", " ", "x", "\n\n"}

VersionInputs ==
    { pre \o core \o rc \o git \o post :
        pre \in VersionPrefixInputs, core \in VersionCoreInputs,
        rc \in VersionRcInputs, git \in VersionGitInputs,
        post \in VersionSuffixInputs }

ValidatedDepInputs ==
    [product_group : {"com.example", "Com", "a\n"},
     product_name : {"db", "1db"},
     minimum_version : {"1.0.0", "1.0", "1.0.0\n"},
     maximum_version : {None, Some("1.0.0"), Some("2.x.x"), Some("")},
     recommended_version : {None, Some("1.2.0"), Some("latest"), Some("")},
     optional : {FALSE}]

ReplicationKeys == {"desired", "min", "max"}

ReplicationInputs ==
    UNION { [keys -> 0..MaxReplicas] : keys \in SUBSET ReplicationKeys }

ManifestIdentityInputs ==
    { [product_group |-> "com.example", product_name |-> "svc",
       product_version |-> "1.0.0", product_type |-> "service.v1"],
      [product_group |-> "", product_name |-> "", product_version |-> "",
       product_type |-> ""],
      [product_group |-> "com.example", product_name |-> "svc",
       product_version |-> "1.0", product_type |-> "jar.v1"] }

ManifestDepInputs ==
    { [product_group |-> "com.example", product_name |-> "db",
       minimum_version |-> "1.0.0", maximum_version |-> None,
       recommended_version |-> None, optional |-> FALSE],
      [product_group |-> "com.example", product_name |-> "db",
       minimum_version |-> "1.0.0", maximum_version |-> Some("1.0.0"),
       recommended_version |-> Some("latest"), optional |-> FALSE],
      [product_group |-> "com.example", product_name |-> "cache",
       minimum_version |-> "2.0", maximum_version |-> Some("2.x.x"),
       recommended_version |-> None, optional |-> TRUE] }

ManifestDepSeqs == UNION { [1..n -> ManifestDepInputs] : n \in 0..MaxDeps }

IncompatibilityInputs ==
    { <<>>,
      <<[product_group |-> "com.example", product_name |-> "old",
         version_range |-> "1.x.x", reason |-> "api break"]>>,
      <<[product_group |-> "com.example", product_name |-> "old",
         version_range |-> "1.x.x", reason |-> ""]>> }

ManifestInputs(map) ==
    { [product_group |-> id.product_group, product_name |-> id.product_name,
       product_version |-> id.product_version, product_type |-> id.product_type,
       replication |-> map, product_dependencies |-> deps,
       product_incompatibilities |-> incompats] :
        id \in ManifestIdentityInputs, deps \in ManifestDepSeqs,
        incompats \in IncompatibilityInputs }

OptionalStrInputs == {None, Some(""), Some("set")}

Item(key, value) == [key |-> key, value |-> value]

\* ManifestData values that differ from the minimal one in the scalars,
\* traits, labels and annotations.
ToDictScalarInputs ==
    { [MinimalManifestData EXCEPT !.display_name = dn, !.description = ds,
                                  !.traits = tr, !.labels = lb,
                                  !.annotations = an] :
        dn \in OptionalStrInputs, ds \in OptionalStrInputs,
        tr \in {<<>>, <<"ml", "gpu">>},
        lb \in {<<>>, <<Item("team", "core")>>},
        an \in {<<>>, <<Item("owner", "me")>>} }

\* ... in resources, replication, endpoints, volumes and secrets.
ToDictSectionInputs ==
    { [MinimalManifestData EXCEPT !.resource_requests = rq,
                                  !.resource_limits = rl, !.replication = rp,
                                  !.endpoints = ep, !.volumes = vo,
                                  !.secrets = se] :
        rq \in {<<>>, <<Item("cpu", "1")>>},
        rl \in {<<>>, <<Item("memory", "1Gi")>>},
        rp \in {<<>>, <<Item("desired", 2), Item("min", 0)>>},
        ep \in {<<>>, <<<<Item("name", "http"), Item("port", "8080")>>>>},
        vo \in {<<>>, <<<<Item("name", "data")>>>>},
        se \in {<<>>, <<<<Item("name", "token")>>>>} }

ToDictDepInputs ==
    { [product_group |-> "com.example", product_name |-> "db",
       minimum_version |-> "1.0.0", maximum_version |-> mx,
       recommended_version |-> rec, optional |-> opt] :
        mx \in {None, Some("2.x.x")}, rec \in {None, Some("")},
        opt \in {FALSE} }
    \cup
    { [product_group |-> "com.example", product_name |-> "cache",
       minimum_version |-> "2.0.0", maximum_version |-> Some(""),
       recommended_version |-> Some("2.1.0"), optional |-> TRUE] }

ToDictDepSeqs == UNION { [1..n -> ToDictDepInputs] : n \in 0..MaxDeps }

ArtifactInputs ==
    { <<>>,
      <<[type |-> "oci", uri |-> "registry/svc:1", name |-> None,
         digest |-> None]>>,
      <<[type |-> "oci", uri |-> "registry/svc:1", name |-> Some("svc"),
         digest |-> Some("sha256:ab")],
        [type |-> "oci", uri |-> "registry/side:1", name |-> Some(""),
         digest |-> None]>> }

\* ... in what goes into extensions.
ToDictExtensionInputs ==
    { [MinimalManifestData EXCEPT !.product_dependencies = deps,
                                  !.product_incompatibilities = incompats,
                                  !.artifacts = arts, !.extensions = ext] :
        deps \in ToDictDepSeqs,
        incompats \in {<<>>,
            <<[product_group |-> "com.example", product_name |-> "old",
               version_range |-> "1.x.x", reason |-> "api break"]>>},
        arts \in ArtifactInputs,
        ext \in {<<>>, <<Item("x-tier", "gold")>>} }

ToDictInputs ==
    ToDictScalarInputs \cup ToDictSectionInputs \cup ToDictExtensionInputs

(***************************************************************************)
(* The validators as a state machine: a single-entity validator is called   *)
(* on an input; after validate_replication, the aggregate validator is      *)
(* called on a ManifestData that holds the same replication map.            *)
(***************************************************************************)
ValidInit == ValidIdle /\ LockIdle /\ LayoutIdle /\ ScriptIdle

IsOrderableVersion ==
    /\ valid_pc = "start"
    /\ \E s \in VersionInputs :
        /\ version' = s
        /\ orderable' = is_orderable_version(s)
    /\ valid_pc' = "is_orderable_version"
    /\ UNCHANGED <<dep, dep_error, replication, replication_error, manifest,
                   report, manifest_data, manifest_doc, lock_vars,
                   layout_vars, script_vars>>

ValidateDependency ==
    /\ valid_pc = "start"
    /\ \E d \in ValidatedDepInputs :
        /\ dep' = d
        /\ dep_error' = validate_dependency(d)
    /\ valid_pc' = "validate_dependency"
    /\ UNCHANGED <<version, orderable, replication, replication_error, manifest,
                   report, manifest_data, manifest_doc, lock_vars,
                   layout_vars, script_vars>>

ValidateReplication ==
    /\ valid_pc = "start"
    /\ \E map \in ReplicationInputs :
        /\ replication' = map
        /\ replication_error' = validate_replication(map)
    /\ valid_pc' = "validate_replication"
    /\ UNCHANGED <<version, orderable, dep, dep_error, manifest, report,
                   manifest_data, manifest_doc, lock_vars, layout_vars,
                   script_vars>>

ValidateManifestData ==
    /\ valid_pc = "validate_replication"
    /\ \E data \in ManifestInputs(replication) :
        /\ manifest' = data
        /\ report' = validate_manifest_data(data)
    /\ valid_pc' = "validate_manifest_data"
    /\ UNCHANGED <<version, orderable, dep, dep_error, replication,
                   replication_error, manifest_data, manifest_doc,
                   lock_vars, layout_vars, script_vars>>

ToDict ==
    /\ valid_pc = "start"
    /\ \E data \in ToDictInputs :
        /\ manifest_data' = data
        /\ manifest_doc' = to_dict(data)
    /\ valid_pc' = "to_dict"
    /\ UNCHANGED <<version, orderable, dep, dep_error, replication,
                   replication_error, manifest, report, lock_vars, layout_vars,
                   script_vars>>

ValidNext ==
    \/ IsOrderableVersion
    \/ ValidateDependency
    \/ ValidateReplication
    \/ ValidateManifestData
    \/ ToDict

SpecValid == ValidInit /\ [][ValidNext]_vars

(***************************************************************************)
(* Inputs of the packaging functions.                                       *)
(***************************************************************************)
CheckArgsInputs == {None, Some(<<>>), Some(<<"--check">>)}

CheckCommandInputs == {None, Some(""), Some("curl -f localhost:8080")}

CheckScriptInputs == {None, Some("scripts/check.sh")}

HookKeyInputs ==
    {"pre-startup.d/10-migrate.sh", "startup.d/00-main.sh",
     "post-startup.d/10-warm.sh\n", "bogus.d/10-x.sh", "startup.d/run"}

\* The dicts of at most MaxHooks items: sequences of items with distinct keys.
HookDicts ==
    UNION { { items \in [1..n -> [key : HookKeyInputs, source : {"hooks/run.sh"}]] :
                \A i, j \in 1..n : i # j => items[i].key # items[j].key } :
            n \in 0..MaxHooks }

HooksInputs == {None} \cup { Some(items) : items \in HookDicts }

OptionalContent(text) == {None, Some(text)}

LayoutKwargsInputs ==
    [product_name : {"svc"}, product_version : {"1.0.0"}, manifest_yaml : {"m"},
     launcher_static_yaml : {"l"}, init_script : {"i"},
     check_script_content : OptionalContent("c"),
     check_script_source : OptionalContent("scripts/check.sh"),
     launcher_check_yaml : OptionalContent("y"),
     lock_file_content : OptionalContent(LOCK_HEADER),
     hook_entrypoint_content : OptionalContent("e"),
     hook_library_content : OptionalContent("h"),
     hook_startup_content : OptionalContent("s"),
     hook_scripts : HooksInputs]

AssetMappingInputs ==
    [source_path : {"a.txt", "b.txt"}, dest_path : {"x.txt", "conf/y.txt"}]

AssetMappingLists ==
    UNION { [1..n -> AssetMappingInputs] : n \in 0..MaxAssets }

AssetKwargsInputs ==
    [product_name : {"assets"}, product_version : {"1.0.0"}, manifest_yaml : {"m"},
     lock_file_content : OptionalContent(LOCK_HEADER),
     asset_mappings : {None} \cup { Some(list) : list \in AssetMappingLists }]

DependencyTargetInputs ==
    { [product_group |-> "com.example", product_name |-> "db",
       minimum_version |-> "1.0.0", maximum_version |-> None,
       recommended_version |-> None, optional |-> FALSE],
      [product_group |-> "com.example", product_name |-> "db",
       minimum_version |-> "1.0.0", maximum_version |-> Some("1.0.0"),
       recommended_version |-> None, optional |-> FALSE] }

FieldSetInputs ==
    [product_group : {"com.example"}, product_name : {"svc"},
     version : {"1.0.0", "1.0"},
     check_args : CheckArgsInputs, check_command : CheckCommandInputs,
     check_script : CheckScriptInputs,
     product_dependencies :
        {<<>>} \cup { <<target>> : target \in DependencyTargetInputs },
     replication_desired : {None}, replication_min : {None, Some(1)},
     replication_max : {None, Some(0)}, pex_binary : {None, Some("bin/app.pex")},
     hooks : HooksInputs]

(***************************************************************************)
(* The packaging functions as a state machine: one of them is called on an  *)
(* input.  assemble_sls_package records the CheckScriptResult it obtained   *)
(* and the arguments it gave build_layout; when it raises, no layout is     *)
(* returned.                                                                *)
(***************************************************************************)
LayoutInit == LayoutIdle /\ LockIdle /\ ValidIdle /\ ScriptIdle

GenerateCheckScript ==
    /\ layout_pc = "start"
    /\ \E kw \in [service_name : {"svc"}, check_args : CheckArgsInputs,
                  check_command : CheckCommandInputs,
                  check_script_path : CheckScriptInputs] :
        /\ check_kwargs' = kw
        /\ check_result' = generate_check_script(kw.service_name, kw.check_args,
                                kw.check_command, kw.check_script_path)
    /\ layout_pc' = "generate_check_script"
    /\ UNCHANGED <<layout_kwargs, asset_kwargs, field_set, sls_manifest,
                   package_error, layout, lock_vars, valid_vars,
                   script_vars>>

BuildLayout ==
    /\ layout_pc = "start"
    /\ \E kw \in LayoutKwargsInputs :
        /\ layout_kwargs' = kw
        /\ layout' = build_layout(kw)
    /\ layout_pc' = "build_layout"
    /\ UNCHANGED <<check_kwargs, check_result, asset_kwargs, field_set,
                   sls_manifest, package_error, lock_vars, valid_vars,
                   script_vars>>

BuildAssetLayout ==
    /\ layout_pc = "start"
    /\ \E kw \in AssetKwargsInputs :
        /\ asset_kwargs' = kw
        /\ layout' = build_asset_layout(kw)
    /\ layout_pc' = "build_asset_layout"
    /\ UNCHANGED <<check_kwargs, check_result, layout_kwargs, field_set,
                   sls_manifest, package_error, lock_vars, valid_vars,
                   script_vars>>

AssembleSlsPackage ==
    /\ layout_pc = "start"
    /\ \E fs \in FieldSetInputs :
        /\ field_set' = fs
        /\ sls_manifest' = generate_manifest(fs)
        /\ check_result' = PackageCheckScript(fs, sls_manifest')
        /\ package_error' = PackageError(fs, sls_manifest', check_result')
        /\ layout_kwargs' =
                IF package_error' # "" THEN NoLayoutKwargs
                ELSE PackageKwargs(fs, sls_manifest', check_result')
        /\ layout' =
                IF package_error' # "" THEN RaisedLayout
                ELSE build_layout(layout_kwargs')
    /\ layout_pc' = "assemble_sls_package"
    /\ UNCHANGED <<check_kwargs, asset_kwargs, lock_vars, valid_vars,
                   script_vars>>

LayoutNext ==
    \/ GenerateCheckScript
    \/ BuildLayout
    \/ BuildAssetLayout
    \/ AssembleSlsPackage

SpecLayout == LayoutInit /\ [][LayoutNext]_vars

CoreIdle == LockIdle /\ ValidIdle /\ LayoutIdle

(***************************************************************************)
(* Hook directories given to the runners of hooks.sh: up to MaxHookFiles    *)
(* entries, named in glob order.                                            *)
(***************************************************************************)
HookNames == <<"10-a.sh", "20-b.sh", "30-c.sh", "40-d.sh">>

HookExitCodes == {0, 1, 3}

HookEntryInputs(i) ==
    { HookEntry(HookNames[i], is_file, is_executable, rc, FALSE) :
        is_file \in BOOLEAN, is_executable \in BOOLEAN, rc \in HookExitCodes }

HookEntrySeqs(n) ==
    { entries \in [1..n -> UNION { HookEntryInputs(i) : i \in 1..n }] :
        \A i \in 1..n : entries[i].name = HookNames[i] }

HookDirInputs ==
    {None} \cup { Some(entries) :
                    entries \in UNION { HookEntrySeqs(n) : n \in 0..MaxHookFiles } }

(***************************************************************************)
(* The runners of hooks.sh as a state machine: one of them is called on a   *)
(* hook directory.                                                          *)
(***************************************************************************)
HooksInit == ScriptIdle /\ CoreIdle

RunHooks ==
    /\ hooks_pc = "start"
    /\ \E dir \in HookDirInputs :
        /\ hook_dir' = dir
        /\ hook_result' = run_hooks(dir)
    /\ hooks_pc' = "run_hooks"
    /\ UNCHANGED <<entrypoint_vars, init_vars, platform_vars, core_vars>>

RunHooksTimed ==
    /\ hooks_pc = "start"
    /\ \E dir \in HookDirInputs :
        /\ hook_dir' = dir
        /\ hook_result' = run_hooks_timed("startup", dir)
    /\ hooks_pc' = "run_hooks_timed"
    /\ UNCHANGED <<entrypoint_vars, init_vars, platform_vars, core_vars>>

RunHooksWarn ==
    /\ hooks_pc = "start"
    /\ \E dir \in HookDirInputs :
        /\ hook_dir' = dir
        /\ hook_result' = run_hooks_warn(dir)
    /\ hooks_pc' = "run_hooks_warn"
    /\ UNCHANGED <<entrypoint_vars, init_vars, platform_vars, core_vars>>

HooksNext == RunHooks \/ RunHooksTimed \/ RunHooksWarn

SpecHooks == HooksInit /\ [][HooksNext]_vars

(***************************************************************************)
(* Hook directories and environments of an execution of entrypoint.sh.      *)
(***************************************************************************)
OkHook(name) == HookEntry(name, TRUE, TRUE, 0, FALSE)

FailingHook(name) == HookEntry(name, TRUE, TRUE, 1, FALSE)

SkippedHook(name) == HookEntry(name, TRUE, FALSE, 1, FALSE)

\* startup.d/00-main.sh
MainHook == HookEntry("00-main.sh", TRUE, TRUE, 0, TRUE)

\* Hosts on which the launcher of the platform is, or is not, installed.
ShimHostInputs ==
    { [uname_s |-> "Linux", uname_m |-> "x86_64", executables |-> x] :
        x \in { {}, {"service/bin/linux-amd64/python-service-launcher"} } }

\* startup.d/00-main.sh as generate_startup_script writes it, run on host.
ShimHook(host) ==
    [HookEntry("00-main.sh", TRUE, TRUE, StartupShim(host).exit_code,
               StartupShim(host).launcher_started)
        EXCEPT !.pid_written = StartupShim(host).pid_written]

EntryDirInputs(phase) ==
    IF phase = "startup"
    THEN { None, Some(<<MainHook>>), Some(<<MainHook, OkHook("10-a.sh")>>),
           Some(<<MainHook, FailingHook("10-a.sh")>>),
           Some(<<FailingHook("10-a.sh")>>) }
         \cup { Some(<<ShimHook(host)>>) : host \in ShimHostInputs }
    ELSE { None, Some(<<>>), Some(<<OkHook("10-a.sh")>>),
           Some(<<FailingHook("10-a.sh"), OkHook("20-b.sh")>>),
           Some(<<SkippedHook("10-a.sh"), OkHook("20-b.sh")>>) }

GraceEnvInputs == {None} \cup { Some(n) : n \in 0..MaxGrace }

(***************************************************************************)
(* entrypoint.sh as a state machine.  entrypoint.pc names what the script   *)
(* does next: one of the five startup phases, the wait on the main process, *)
(* the wait for a signal, or a part of _shutdown.                           *)
(***************************************************************************)
EntryInit ==
    /\ entrypoint \in { EntryStarted(env) : env \in GraceEnvInputs }
    /\ HooksIdle /\ InitIdle /\ PlatformIdle /\ CoreIdle

\* The state after the hooks of ran were run: a hook that launches the main
\* process leaves it running and its PID in main.pid.
AfterHooks(e, ran) ==
    IF Launches(ran)
    THEN [e EXCEPT !.main_process = "alive", !.state_files = @ \cup {"main.pid"}]
    ELSE IF WritesPid(ran)
    THEN [e EXCEPT !.state_files = @ \cup {"main.pid"}]
    ELSE e

\* _shutdown up to its first hook: a call made while a shutdown is in
\* progress returns at once.
ShutdownEntry(e) ==
    IF ShutdownInProgress(e.SHUTDOWN_IN_PROGRESS) THEN e
    ELSE [e EXCEPT !.SHUTDOWN_IN_PROGRESS = "1", !.pc = "pre-shutdown",
                   !.trace = Append(@, Step("_shutdown"))]

\* A phase whose failure is logged and not acted upon.
FatalPhaseGoesOn(phase, next) ==
    /\ entrypoint.pc = phase
    /\ \E dir \in EntryDirInputs(phase) :
        LET r == run_hooks_timed(phase, dir)
            e == AfterHooks(entrypoint, r.ran)
        IN  entrypoint' =
                [e EXCEPT !.pc = next,
                          !.MAIN_PID =
                                IF phase = "startup" /\ "main.pid" \in e.state_files
                                THEN "pid" ELSE @,
                          !.trace = Append(@, Event("phase", phase, Len(r.ran), r.rc))]
    /\ UNCHANGED <<hooks_vars, init_vars, platform_vars, core_vars>>

\* run_hooks_timed ... || { _log_err "... failed, aborting"; exit 1; }
FatalPhase(phase, next) ==
    /\ entrypoint.pc = phase
    /\ \E dir \in EntryDirInputs(phase) :
        LET r == run_hooks_timed(phase, dir)
            e == AfterHooks(entrypoint, r.ran)
            returned == Event("phase", phase, Len(r.ran), r.rc)
        IN  entrypoint' =
                IF r.rc # 0
                THEN [e EXCEPT !.pc = "exited", !.exit_code = Some(1),
                               !.trace = @ \o <<returned, Step("exit")>>]
                ELSE [e EXCEPT !.pc = next,
                               !.MAIN_PID =
                                    IF phase = "startup" /\ "main.pid" \in e.state_files
                                    THEN "pid" ELSE @,
                               !.trace = Append(@, returned)]
    /\ UNCHANGED <<hooks_vars, init_vars, platform_vars, core_vars>>

PreConfigure == FatalPhase("pre-configure", "configure")

Configure == FatalPhase("configure", "pre-startup")

PreStartup == FatalPhase("pre-startup", "startup")

Startup == FatalPhase("startup", "post-startup")

\* Phase 5, the readiness marker and the choice between the two waits.
PostStartup ==
    /\ entrypoint.pc = "post-startup"
    /\ \E dir \in EntryDirInputs("post-startup") :
        LET r == run_hooks_timed("post-startup", dir)
            e == AfterHooks(entrypoint, r.ran)
        IN  entrypoint' =
                [e EXCEPT !.pc = IF MainAlive(e.MAIN_PID, e.main_process)
                                 THEN "wait_main" ELSE "wait_signal",
                          !.state_files = @ \cup {"initialized"},
                          !.trace = @ \o <<Event("phase", "post-startup",
                                                 Len(r.ran), r.rc),
                                           Step("touch initialized")>>]
    /\ UNCHANGED <<hooks_vars, init_vars, platform_vars, core_vars>>

\* wait "$MAIN_PID" || true; _shutdown.  The main process is a child of the
\* hook that started it, not of this shell, so wait returns without waiting.
WaitMain ==
    /\ entrypoint.pc = "wait_main"
    /\ LET e == ShutdownEntry(entrypoint)
       IN  entrypoint' = IF e.pc = "wait_main"
                    THEN [e EXCEPT !.pc = "exited", !.exit_code = Some(0)]
                    ELSE e
    /\ UNCHANGED <<hooks_vars, init_vars, platform_vars, core_vars>>

\* TERM or INT arrives and the trap calls _shutdown when the command the
\* script waits for has returned.
Signal ==
    /\ entrypoint.pc # "exited"
    /\ entrypoint.signals < MaxSignals
    /\ entrypoint' = ShutdownEntry([entrypoint EXCEPT !.signals = @ + 1])
    /\ UNCHANGED <<hooks_vars, init_vars, platform_vars, core_vars>>

\* TERM or INT arrives while the k-th hook of a startup phase runs: the trap
\* is taken when that hook returns, inside run_hooks_timed.
SignalInPhase ==
    /\ entrypoint.pc \in { HOOK_PHASES[p] : p \in 1..5 }
    /\ entrypoint.signals < MaxSignals
    /\ \E dir \in EntryDirInputs(entrypoint.pc) :
        LET r == run_hooks_timed(entrypoint.pc, dir)
        IN  \E k \in 1..Len(r.ran) :
                entrypoint' = ShutdownEntry(
                    [AfterHooks(entrypoint, SubSeq(r.ran, 1, k)) EXCEPT
                        !.signals = @ + 1,
                        !.trace = Append(@, Event("interrupted", entrypoint.pc, k,
                                                  r.ran[k].rc))])
    /\ UNCHANGED <<hooks_vars, init_vars, platform_vars, core_vars>>

\* _shutdown: the pre-shutdown hooks, then TERM to the main process if it
\* is alive.
PreShutdown ==
    /\ entrypoint.pc = "pre-shutdown"
    /\ \E dir \in EntryDirInputs("pre-shutdown") :
        LET r == run_hooks_warn(dir)
            returned == Event("phase", "pre-shutdown", Len(r.ran), r.rc)
        IN  entrypoint' =
                IF MainAlive(entrypoint.MAIN_PID, entrypoint.main_process)
                THEN [entrypoint EXCEPT !.pc = "grace", !.waited = 0,
                                   !.trace = @ \o <<returned, Step("kill -TERM")>>]
                ELSE [entrypoint EXCEPT !.pc = "shutdown",
                                   !.trace = Append(@, returned)]
    /\ UNCHANGED <<hooks_vars, init_vars, platform_vars, core_vars>>

\* One turn of the grace loop: sleep 1.
GraceSleep ==
    /\ entrypoint.pc = "grace"
    /\ MainAlive(entrypoint.MAIN_PID, entrypoint.main_process)
    /\ entrypoint.waited < GraceSeconds(entrypoint.grace_env)
    /\ entrypoint' = [entrypoint EXCEPT !.waited = @ + 1]
    /\ UNCHANGED <<hooks_vars, init_vars, platform_vars, core_vars>>

\* The end of the grace loop, and KILL if the main process is still alive.
GraceEnd ==
    /\ entrypoint.pc = "grace"
    /\ ~(MainAlive(entrypoint.MAIN_PID, entrypoint.main_process)
            /\ entrypoint.waited < GraceSeconds(entrypoint.grace_env))
    /\ entrypoint' =
            IF MainAlive(entrypoint.MAIN_PID, entrypoint.main_process)
            THEN [entrypoint EXCEPT !.pc = "shutdown", !.main_process = "dead",
                               !.trace = Append(@, Step("kill -KILL"))]
            ELSE [entrypoint EXCEPT !.pc = "shutdown"]
    /\ UNCHANGED <<hooks_vars, init_vars, platform_vars, core_vars>>

\* _shutdown: the shutdown hooks, the removal of the state markers, exit 0.
Shutdown ==
    /\ entrypoint.pc = "shutdown"
    /\ \E dir \in EntryDirInputs("shutdown") :
        LET r == run_hooks_warn(dir)
        IN  entrypoint' =
                [entrypoint EXCEPT !.pc = "exited", !.exit_code = Some(0),
                              !.state_files = @ \ {"initialized", "main.pid"},
                              !.trace = @ \o <<Event("phase", "shutdown",
                                                     Len(r.ran), r.rc),
                                               Step("rm markers"), Step("exit")>>]
    /\ UNCHANGED <<hooks_vars, init_vars, platform_vars, core_vars>>

\* The main process exits, on its own or after TERM.
MainExits ==
    /\ entrypoint.pc # "exited"
    /\ entrypoint.main_process = "alive"
    /\ entrypoint' = [entrypoint EXCEPT !.main_process = "dead"]
    /\ UNCHANGED <<hooks_vars, init_vars, platform_vars, core_vars>>

EntryNext ==
    \/ PreConfigure
    \/ Configure
    \/ PreStartup
    \/ Startup
    \/ PostStartup
    \/ WaitMain
    \/ Signal
    \/ SignalInPhase
    \/ PreShutdown
    \/ GraceSleep
    \/ GraceEnd
    \/ Shutdown
    \/ MainExits

SpecEntry == EntryInit /\ [][EntryNext]_vars

\* The shell goes on to its next command: a sleep 1 of the grace loop
\* returns, and the hooks of the two shutdown phases return.
SpecEntryFair ==
    /\ SpecEntry
    /\ WF_vars(PreShutdown)
    /\ WF_vars(GraceSleep)
    /\ WF_vars(GraceEnd)
    /\ WF_vars(Shutdown)

(***************************************************************************)
(* Platforms: the launcher binaries of a distribution are installed for     *)
(* linux and darwin on amd64 and arm64, under one of the two names the      *)
(* scripts look for, under both, or not at all.                             *)
(***************************************************************************)
LauncherPaths(name) ==
    { "service/bin/" \o os \o "-" \o arch \o "/" \o name :
        os \in {"linux", "darwin"}, arch \in {"amd64", "arm64"} }

ExecutableInputs ==
    { {}, LauncherPaths("go-python-launcher"),
      LauncherPaths("python-service-launcher"),
      LauncherPaths("go-python-launcher")
        \cup LauncherPaths("python-service-launcher") }

PlatformInputs ==
    [uname_s : {"Linux", "Darwin"},
     uname_m : {"x86_64", "amd64", "aarch64", "arm64", "i386", "riscv64"},
     executables : ExecutableInputs]

(***************************************************************************)
(* The two platform detections as a state machine: on one platform, the     *)
(* top-level code of init.sh is run and startup.d/00-main.sh is run.        *)
(***************************************************************************)
PlatformInit ==
    /\ platform \in PlatformInputs
    /\ init_detect = NotRun
    /\ shim_run = NotRun
    /\ check_run = NotRun
    /\ HooksIdle /\ EntryIdle /\ InitIdle /\ CoreIdle

DetectLauncher ==
    /\ ~init_detect.ran
    /\ init_detect' = [NotRun EXCEPT !.ran = TRUE,
                          !.exit_code = detect_launcher(platform).exit_code,
                          !.launcher = detect_launcher(platform).launcher]
    /\ UNCHANGED <<platform, shim_run, check_run, hooks_vars, entrypoint_vars, init_vars, core_vars>>

RunStartupShim ==
    /\ ~shim_run.ran
    /\ shim_run' = [ran |-> TRUE,
                    exit_code |-> StartupShim(platform).exit_code,
                    launcher |-> StartupShim(platform).launcher,
                    pid_written |-> StartupShim(platform).pid_written,
                    launcher_started |-> StartupShim(platform).launcher_started]
    /\ UNCHANGED <<platform, init_detect, check_run, hooks_vars, entrypoint_vars, init_vars, core_vars>>

\* check.sh up to its exec of the launcher.
RunCheckScript ==
    /\ ~check_run.ran
    /\ check_run' = [NotRun EXCEPT !.ran = TRUE,
                        !.exit_code = check_detect_launcher(platform).exit_code,
                        !.launcher = check_detect_launcher(platform).launcher,
                        !.launcher_started =
                            check_detect_launcher(platform).exit_code = 0]
    /\ UNCHANGED <<platform, init_detect, shim_run, hooks_vars, entrypoint_vars,
                   init_vars, core_vars>>

PlatformNext == DetectLauncher \/ RunStartupShim \/ RunCheckScript

SpecPlatform == PlatformInit /\ [][PlatformNext]_vars

(***************************************************************************)
(* init.sh as a state machine: commands are run one after another on a      *)
(* distribution whose PID file may be left over from an earlier run; a      *)
(* launcher process may exit at any time.                                   *)
(***************************************************************************)
InitPlatformInputs ==
    { [uname_s |-> "Linux", uname_m |-> "x86_64",
       executables |-> LauncherPaths("go-python-launcher")],
      [uname_s |-> "Linux", uname_m |-> "x86_64",
       executables |-> LauncherPaths("python-service-launcher")] }

PidFileInputs == {None, Some(""), Some("999")}

InitInit ==
    /\ init \in { InitInstalled(p, shutdown_timeout, PID_FILE) :
                    p \in InitPlatformInputs, shutdown_timeout \in 0..MaxTimeout,
                    PID_FILE \in PidFileInputs }
    /\ invocations = NoInvocations
    /\ HooksIdle /\ EntryIdle /\ PlatformIdle /\ CoreIdle

RunCommand ==
    /\ init.pc = "shell"
    /\ init.commands < MaxCommands
    /\ \E command \in INIT_COMMANDS : init' = RunInitScript(init, command)
    /\ UNCHANGED <<invocations, hooks_vars, entrypoint_vars, platform_vars,
                   core_vars>>

StartSleep ==
    /\ init.pc = "do_start sleep"
    /\ init' = do_start_check(init)
    /\ UNCHANGED <<invocations, hooks_vars, entrypoint_vars, platform_vars,
                   core_vars>>

\* One turn of the polling loop of do_stop: sleep 1.
StopSleep ==
    /\ init.pc = "do_stop loop"
    /\ Running(init)
    /\ init.waited < init.shutdown_timeout
    /\ init' = [init EXCEPT !.waited = @ + 1, !.log = Append(@, "sleep 1")]
    /\ UNCHANGED <<invocations, hooks_vars, entrypoint_vars, platform_vars,
                   core_vars>>

StopEnd ==
    /\ init.pc = "do_stop loop"
    /\ ~(Running(init) /\ init.waited < init.shutdown_timeout)
    /\ init' = do_stop_end(init)
    /\ UNCHANGED <<invocations, hooks_vars, entrypoint_vars, platform_vars,
                   core_vars>>

\* The launcher that console runs in the foreground exits.
ConsoleReturns ==
    /\ init.pc = "console"
    /\ \E code \in {0, 1} :
        init' = Returned([init EXCEPT !.alive = @ \ {init.pid}], code)
    /\ UNCHANGED <<invocations, hooks_vars, entrypoint_vars, platform_vars,
                   core_vars>>

\* A launcher process started in the background exits.
LauncherExits ==
    /\ \E p \in init.alive :
        /\ ~(init.pc = "console" /\ p = init.pid)
        /\ init' = [init EXCEPT !.alive = @ \ {p}]
    /\ UNCHANGED <<invocations, hooks_vars, entrypoint_vars, platform_vars,
                   core_vars>>

InitNext ==
    \/ RunCommand
    \/ StartSleep
    \/ StopSleep
    \/ StopEnd
    \/ ConsoleReturns
    \/ LauncherExits

SpecInit == InitInit /\ [][InitNext]_vars

(***************************************************************************)
(* init.sh commands run at the same time on a stopped service.  Each runs   *)
(* start or restart; a step is one command of the script that reads or      *)
(* writes the PID file or signals or starts a process.  A launcher stays    *)
(* alive until it is killed; one that was sent TERM may exit at any time.   *)
(***************************************************************************)
Invocations == 1..MaxInvocations

Invocation(command) ==
    [pc |-> IF command = "start" THEN "do_start" ELSE "do_stop",
     command |-> command, pid |-> "", started |-> FALSE, exit_code |-> None]

ConcurrentInit ==
    /\ invocations \in
            { [NoInvocations EXCEPT !.PID_FILE = PID_FILE,
                                    !.proc = [p \in Invocations |->
                                                Invocation(commands[p])]] :
                PID_FILE \in PidFileInputs,
                commands \in [Invocations -> {"start", "restart"}] }
    /\ init = InitInstalled(NoPlatform, 0, None)
    /\ HooksIdle /\ EntryIdle /\ PlatformIdle /\ CoreIdle

IsRunningNow(v) == is_running(v.PID_FILE, v.alive)

InFlight(v, q) == v.proc[q].started /\ v.proc[q].pc # "returned"

\* Invocation p goes on to pc; overlapped records that another invocation
\* was between its first step and its return.
Moved(v, p, pc) ==
    [v EXCEPT !.proc[p].pc = pc, !.proc[p].started = TRUE,
              !.overlapped = @ \/ \E q \in Invocations \ {p} : InFlight(v, q)]

Exited(v, p, code) ==
    [Moved(v, p, "returned") EXCEPT !.proc[p].exit_code = Some(code)]

ConcurrentUnchanged ==
    UNCHANGED <<init, hooks_vars, entrypoint_vars, platform_vars, core_vars>>

\* do_start: if is_running; then ... return 0; fi
StartCheck ==
    /\ \E p \in Invocations :
        /\ invocations.proc[p].pc = "do_start"
        /\ invocations' = IF IsRunningNow(invocations)
                          THEN Exited(invocations, p, 0)
                          ELSE Moved(invocations, p, "launch")
    /\ ConcurrentUnchanged

\* nohup "$LAUNCHER" ... &  and  local pid=$!
Launch ==
    /\ \E p \in Invocations :
        /\ invocations.proc[p].pc = "launch"
        /\ LET pid == ToString(invocations.launched + 1)
           IN  invocations' =
                    [Moved(invocations, p, "write_pid") EXCEPT
                        !.launched = @ + 1, !.alive = @ \cup {pid},
                        !.proc[p].pid = pid]
    /\ ConcurrentUnchanged

\* echo "$pid" > "$PID_FILE"
WritePid ==
    /\ \E p \in Invocations :
        /\ invocations.proc[p].pc = "write_pid"
        /\ invocations' = [Moved(invocations, p, "sleep") EXCEPT
                              !.PID_FILE = Some(invocations.proc[p].pid)]
    /\ ConcurrentUnchanged

\* sleep 1; if is_running; then ... else ... return 1; fi
StartVerify ==
    /\ \E p \in Invocations :
        /\ invocations.proc[p].pc = "sleep"
        /\ invocations' = Exited(invocations, p,
                                 IF IsRunningNow(invocations) THEN 0 ELSE 1)
    /\ ConcurrentUnchanged

\* do_stop: if ! is_running; then
StopCheck ==
    /\ \E p \in Invocations :
        /\ invocations.proc[p].pc = "do_stop"
        /\ invocations' = IF IsRunningNow(invocations)
                          THEN Moved(invocations, p, "stop_term")
                          ELSE Moved(invocations, p, "rm_stale")
    /\ ConcurrentUnchanged

\* rm -f "$PID_FILE"; return 0, and do_restart goes on with do_start.
RemoveStale ==
    /\ \E p \in Invocations :
        /\ invocations.proc[p].pc = "rm_stale"
        /\ invocations' = [Moved(invocations, p, "do_start") EXCEPT
                              !.PID_FILE = None]
    /\ ConcurrentUnchanged

\* pid="$(cat "$PID_FILE")", which ends the script under set -e when the
\* file is gone, and kill -TERM "$pid".
StopTerm ==
    /\ \E p \in Invocations :
        /\ invocations.proc[p].pc = "stop_term"
        /\ invocations' =
                IF invocations.PID_FILE = None THEN Exited(invocations, p, 1)
                ELSE [Moved(invocations, p, "stop_loop") EXCEPT
                        !.proc[p].pid = invocations.PID_FILE[1],
                        !.termed = @ \cup ({invocations.PID_FILE[1]}
                                              \cap invocations.alive)]
    /\ ConcurrentUnchanged

\* The polling loop ends, because is_running fails or the timeout has
\* passed; if is_running; then kill -KILL "$pid"; sleep 1; fi
StopLoopEnds ==
    /\ \E p \in Invocations :
        /\ invocations.proc[p].pc = "stop_loop"
        /\ invocations' =
                IF IsRunningNow(invocations)
                THEN [Moved(invocations, p, "stop_rm") EXCEPT
                        !.alive = @ \ {invocations.proc[p].pid}]
                ELSE Moved(invocations, p, "stop_rm")
    /\ ConcurrentUnchanged

\* rm -f "$PID_FILE" at the end of do_stop, and do_restart goes on.
StopRemove ==
    /\ \E p \in Invocations :
        /\ invocations.proc[p].pc = "stop_rm"
        /\ invocations' = [Moved(invocations, p, "do_start") EXCEPT
                              !.PID_FILE = None]
    /\ ConcurrentUnchanged

\* A launcher that was sent TERM exits.
TermedExits ==
    /\ \E x \in invocations.termed \cap invocations.alive :
        invocations' = [invocations EXCEPT !.alive = @ \ {x}]
    /\ ConcurrentUnchanged

AllReturned(v) ==
    v.proc # <<>> /\ \A p \in Invocations : v.proc[p].pc = "returned"

\* A later "init.sh stop", run alone to its end: the process the PID file
\* names is sent TERM and, if it is still alive after the timeout, KILL.
LaterStop ==
    /\ AllReturned(invocations)
    /\ invocations.stop = "none"
    /\ invocations' =
            [invocations EXCEPT
                !.alive = IF IsRunningNow(invocations)
                          THEN @ \ {invocations.PID_FILE[1]} ELSE @,
                !.PID_FILE = None, !.stop = "stopped"]
    /\ ConcurrentUnchanged

ConcurrentNext ==
    \/ StartCheck
    \/ Launch
    \/ WritePid
    \/ StartVerify
    \/ StopCheck
    \/ RemoveStale
    \/ StopTerm
    \/ StopLoopEnds
    \/ StopRemove
    \/ TermedExits
    \/ LaterStop

SpecConcurrent == ConcurrentInit /\ [][ConcurrentNext]_vars


(***************************************************************************)
(* Claims about the lock codec.                                             *)
(***************************************************************************)
\* The characters i..j of s that exist: "" when there are none.
Slice(s, i, j) ==
    LET lo == IF i < 1 THEN 1 ELSE i
        hi == Min2(j, Len(s))
    IN  IF lo > hi THEN "" ELSE SubSeq(s, lo, hi)

AllDependenciesValid ==
    \A i \in 1..Len(dependencies) : validate_dependency(dependencies[i]) = "none"

\* The entry the round trip law expects for a dependency: its fields, with
\* the explicit maximum_version or "<major of minimum_version>.x.x".
ExpectedEntry(d) ==
    [product_group |-> d.product_group, product_name |-> d.product_name,
     minimum_version |-> d.minimum_version,
     maximum_version |->
        IF d.maximum_version # None THEN d.maximum_version[1]
        ELSE LET dot == Find(d.minimum_version, ".", 1) IN
             Slice(d.minimum_version, 1, dot - 1) \o ".x.x",
     optional |-> d.optional]

AscendingByProductId(es) ==
    \A i, j \in 1..Len(es) :
        i < j => ~StrLess(product_id(es[j]), product_id(es[i]))

\* C1: for dependencies that each pass validate_dependency,
\* parse_lock_file(generate_lock_file(deps)) returns without error a list of
\* the same length, in ascending product_id order, whose entries are the
\* input dependencies field by field with the effective maximum_version.
C1_RoundTrip ==
    (lock_pc = "parsed" /\ AllDependenciesValid) =>
        /\ ~parsed.raised
        /\ Len(parsed.entries) = Len(dependencies)
        /\ AscendingByProductId(parsed.entries)
        /\ \E p \in Permutation(Len(dependencies)) :
               \A i \in 1..Len(dependencies) :
                   parsed.entries[i] = ExpectedEntry(dependencies[p[i]])

HeaderLines ==
    <<"# product-dependencies.lock",
      "# Run pants sls-lock to regenerate this file">>

EndsWithOneNewline(s) ==
    /\ Len(s) >= 1
    /\ Char(s, Len(s)) = "\n"
    /\ Len(s) >= 2 => Char(s, Len(s) - 1) # "\n"

\* C2: the generated text is the two header lines immediately followed by
\* one line per dependency, with no blank line and exactly one newline at
\* the end, for every input including the empty one.
C2_LockFileShape ==
    lock_pc = "generated" =>
        LET lines == SplitLines(content) IN
        /\ Len(lines) = 2 + Len(dependencies)
        /\ SubSeq(lines, 1, 2) = HeaderLines
        /\ \A i \in 1..Len(lines) : lines[i] # ""
        /\ EndsWithOneNewline(content)

\* The lines of a lock file that are neither blank nor comments.
EntryLines(text) ==
    SelectSeq(SplitLines(text),
              LAMBDA l : Strip(l) # "" /\ ~StartsWith(Strip(l), "#"))

\* The product_id a generated entry line starts with.
LineProductId(line) == Slice(line, 1, Find(line, " ", 1) - 1)

EntryLinesAscending(text) ==
    LET ls == EntryLines(text) IN
    \A i, j \in 1..Len(ls) :
        i < j => ~StrLess(LineProductId(ls[j]), LineProductId(ls[i]))

\* C3: generating from a permutation of the same dependencies gives the
\* identical text, with its entry lines in ascending product_id order.
C3_OrderIndependent ==
    [][(lock_pc = "generated" /\ lock_pc' = "generated") =>
          (content' = content /\ EntryLinesAscending(content'))]_vars

(***************************************************************************)
(* Claims about the grammar and the validators.  The grammar of section 4.1 *)
(* is written here from its wording: whole-string forms, nothing before or  *)
(* after.                                                                   *)
(***************************************************************************)
AllIn(s, C) == \A i \in 1..Len(s) : Char(s, i) \in C

IsDigits(s) == Len(s) >= 1 /\ AllIn(s, Digit)

IsHex(s) == Len(s) >= 1 /\ AllIn(s, HexLower)

\* D.D.D
FormRelease(s) ==
    \E i, j \in 1..Len(s) :
        /\ i < j
        /\ Char(s, i) = "."
        /\ Char(s, j) = "."
        /\ IsDigits(Slice(s, 1, i - 1))
        /\ IsDigits(Slice(s, i + 1, j - 1))
        /\ IsDigits(Slice(s, j + 1, Len(s)))

\* D.D.D-rcN
FormRc(s) ==
    \E k \in 1..Len(s) :
        /\ FormRelease(Slice(s, 1, k))
        /\ Slice(s, k + 1, k + 3) = "-rc"
        /\ IsDigits(Slice(s, k + 4, Len(s)))

\* <base>-N-g<hex> for a base of the form given by IsBase
FormSnapshotOf(s, IsBase(_)) ==
    \E k, m \in 1..Len(s) :
        /\ k < m
        /\ IsBase(Slice(s, 1, k))
        /\ Char(s, k + 1) = "-"
        /\ IsDigits(Slice(s, k + 2, m))
        /\ Slice(s, m + 1, m + 2) = "-g"
        /\ IsHex(Slice(s, m + 3, Len(s)))

OrderableGrammar(s) ==
    \/ FormRelease(s)
    \/ FormRc(s)
    \/ FormSnapshotOf(s, FormRelease)
    \/ FormSnapshotOf(s, FormRc)

GroupGrammar(s) == Len(s) >= 1 /\ AllIn(s, GroupChars)

NameGrammar(s) ==
    Len(s) >= 1 /\ Char(s, 1) \in Lower /\ AllIn(s, GroupChars)

\* C8: is_orderable_version(s) is true iff the whole string s has one of
\* the four forms; a valid version with an extra character before or after
\* it, such as a newline, is not orderable.
C8_OrderableIffGrammar ==
    valid_pc = "is_orderable_version" =>
        (orderable <=> OrderableGrammar(version))

\* The first of the five rules of validate_dependency that dep violates.
FirstViolatedRule(d) ==
    IF ~GroupGrammar(d.product_group) THEN "group"
    ELSE IF ~NameGrammar(d.product_name) THEN "name"
    ELSE IF ~OrderableGrammar(d.minimum_version) THEN "minimum_version"
    ELSE IF d.maximum_version # None
            /\ d.minimum_version = d.maximum_version[1]
         THEN "lockstep"
    ELSE IF d.recommended_version # None
            /\ ~OrderableGrammar(d.recommended_version[1])
         THEN "recommended_version"
    ELSE "none"

\* C9: validate_dependency raises iff one of its five rules is violated, and
\* then for the first violated rule in the order group, name,
\* minimum_version, lockstep, recommended_version.
C9_FirstViolatedRule ==
    valid_pc = "validate_dependency" => dep_error = FirstViolatedRule(dep)

\* Some pair of replication bounds, both present, is out of order.
ReplicationOutOfOrder(map) ==
    \/ {"min", "desired"} \subseteq DOMAIN map /\ map["min"] > map["desired"]
    \/ {"desired", "max"} \subseteq DOMAIN map /\ map["desired"] > map["max"]
    \/ {"min", "max"} \subseteq DOMAIN map /\ map["min"] > map["max"]

HasReplicationError(errors) ==
    \E i \in 1..Len(errors) : errors[i].kind = "replication"

\* C10: validate_manifest_data reports a replication error iff
\* validate_replication raises on the same map, that is, iff some pair of
\* bounds that are both present is out of order.
C10_SameReplicationChecks ==
    valid_pc = "validate_manifest_data" =>
        /\ HasReplicationError(report.errors) <=> replication_error # "none"
        /\ HasReplicationError(report.errors)
               <=> ReplicationOutOfOrder(manifest.replication)

(***************************************************************************)
(* Claims about the layouts and the check script.                           *)
(***************************************************************************)
FilePaths(l) == [i \in 1..Len(l.files) |-> l.files[i].relative_path]

DirectoryPaths(l) ==
    [i \in 1..Len(l.directories) |-> l.directories[i].relative_path]

NoDuplicates(paths) ==
    \A i, j \in 1..Len(paths) : i # j => paths[i] # paths[j]

HasFile(l, path) == \E i \in 1..Len(l.files) : l.files[i].relative_path = path

HasDirectory(l, path) ==
    \E i \in 1..Len(l.directories) : l.directories[i].relative_path = path

\* The first file entry of l at path.
FileAt(l, path) ==
    l.files[CHOOSE i \in 1..Len(l.files) :
                /\ l.files[i].relative_path = path
                /\ \A j \in 1..(i - 1) : l.files[j].relative_path # path]

HookMappingPasses(hook_scripts) ==
    hook_scripts = None \/ validate_hook_paths(hook_scripts[1]) = "none"

\* C4: in every layout build_layout returns for a hook mapping that passes
\* validate_hook_paths, and in every layout build_asset_layout returns, no
\* two files share a relative path and no two directories share one.
C4_PathsUnique ==
    /\ (/\ layout_pc \in {"build_layout", "assemble_sls_package"}
        /\ ~layout.raised
        /\ HookMappingPasses(layout_kwargs.hook_scripts))
        => NoDuplicates(FilePaths(layout)) /\ NoDuplicates(DirectoryPaths(layout))
    /\ layout_pc = "build_asset_layout"
        => NoDuplicates(FilePaths(layout)) /\ NoDuplicates(DirectoryPaths(layout))

FixedHookFiles ==
    {"service/bin/entrypoint.sh", "service/lib/hooks.sh",
     "hooks/startup.d/00-main.sh"}

FixedHookDirectories ==
    { "hooks/" \o HOOK_PHASES[i] \o ".d" : i \in 1..Len(HOOK_PHASES) }
        \cup {"var/state", "var/metrics"}

HookContentSupplied(kw) ==
    \/ kw.hook_entrypoint_content # None
    \/ kw.hook_library_content # None
    \/ kw.hook_startup_content # None
    \/ TruthyItems(kw.hook_scripts)

\* C5: a layout build_layout returns holds all of the fixed hook artifacts
\* or none of them; when no hook content was supplied its directories are
\* exactly var/data/tmp, var/log, var/run and no file lies under hooks/.
C5_HookGating ==
    layout_pc = "build_layout" =>
        /\ \/ /\ \A path \in FixedHookFiles : HasFile(layout, path)
              /\ \A path \in FixedHookDirectories : HasDirectory(layout, path)
           \/ /\ \A path \in FixedHookFiles : ~HasFile(layout, path)
              /\ \A path \in FixedHookDirectories : ~HasDirectory(layout, path)
        /\ ~HookContentSupplied(layout_kwargs) =>
              /\ { DirectoryPaths(layout)[i] : i \in 1..Len(layout.directories) }
                    = {"var/data/tmp", "var/log", "var/run"}
              /\ \A i \in 1..Len(layout.files) :
                    ~StartsWith(layout.files[i].relative_path, "hooks/")

Assembled == layout_pc = "assemble_sls_package" /\ package_error = ""

\* Index of the first file of l at path, or 0.
FileIndex(l, path) ==
    IF HasFile(l, path)
    THEN CHOOSE i \in 1..Len(l.files) :
            /\ l.files[i].relative_path = path
            /\ \A j \in 1..(i - 1) : l.files[j].relative_path # path
    ELSE 0

NoOptionalFeature ==
    /\ check_result.mode = CheckMode.NONE
    /\ layout_kwargs.lock_file_content = None
    /\ ~TruthyItems(field_set.hooks)

\* C6: a layout assemble_sls_package returns has the three runtime
\* directories and, in this order, manifest.yml, the executable init.sh and
\* launcher-static.yml; the lock file iff lock content is non-null;
\* launcher-check.yml iff the mode is check_args; an executable check.sh iff
\* the mode is not NONE, with content in the check_args and check_command
\* modes and a source path in check_script mode, never both; and exactly 3
\* directories and 3 files when no optional feature is used.
C6_ServiceLayoutFileSet ==
    Assembled =>
        LET check == FileAt(layout, "service/monitoring/bin/check.sh")
            mode == check_result.mode
        IN
        /\ \A path \in {"var/data/tmp", "var/log", "var/run"} :
                HasDirectory(layout, path)
        /\ 0 < FileIndex(layout, "deployment/manifest.yml")
        /\ FileIndex(layout, "deployment/manifest.yml")
                < FileIndex(layout, "service/bin/init.sh")
        /\ FileIndex(layout, "service/bin/init.sh")
                < FileIndex(layout, "service/bin/launcher-static.yml")
        /\ FileAt(layout, "service/bin/init.sh").executable
        /\ HasFile(layout, "deployment/product-dependencies.lock")
                <=> layout_kwargs.lock_file_content # None
        /\ HasFile(layout, "service/bin/launcher-check.yml")
                <=> mode = CheckMode.CHECK_ARGS
        /\ HasFile(layout, "service/monitoring/bin/check.sh")
                <=> mode # CheckMode.NONE
        /\ mode # CheckMode.NONE =>
                /\ check.executable
                /\ ~(check.content # None /\ check.source_path # None)
                /\ mode \in {CheckMode.CHECK_ARGS, CheckMode.CHECK_COMMAND}
                        => check.content # None
                /\ mode = CheckMode.CHECK_SCRIPT => check.source_path # None
        /\ NoOptionalFeature =>
                Len(layout.directories) = 3 /\ Len(layout.files) = 3

\* A service assembled with check_args, a dependency and a user hook.
C6_Witness ==
    /\ Assembled
    /\ check_result.mode = CheckMode.CHECK_ARGS
    /\ layout_kwargs.lock_file_content # None
    /\ TruthyItems(field_set.hooks)
    /\ HasFile(layout, "service/bin/launcher-check.yml")

SuppliedCheckInputs(kw) ==
    { f \in {"check_args", "check_command", "check_script_path"} : kw[f] # None }

ExpectedMode(kw) ==
    IF kw.check_args # None THEN CheckMode.CHECK_ARGS
    ELSE IF kw.check_command # None THEN CheckMode.CHECK_COMMAND
    ELSE IF kw.check_script_path # None THEN CheckMode.CHECK_SCRIPT
    ELSE CheckMode.NONE

\* C7: generate_check_script fails with an "Only one" error and no result
\* when more than one input is supplied; otherwise the mode is that of the
\* single supplied input (NONE for none), check_script_content is set
\* exactly in the check_args and check_command modes, source_path exactly
\* in check_script mode, and never both.
C7_CheckScriptCases ==
    layout_pc = "generate_check_script" =>
        IF Cardinality(SuppliedCheckInputs(check_kwargs)) > 1
        THEN /\ check_result.raised
             /\ StartsWith(check_result.error, "Only one")
             /\ check_result.check_script_content = None
             /\ check_result.source_path = None
        ELSE /\ ~check_result.raised
             /\ check_result.mode = ExpectedMode(check_kwargs)
             /\ check_result.check_script_content # None
                    <=> check_result.mode
                            \in {CheckMode.CHECK_ARGS, CheckMode.CHECK_COMMAND}
             /\ check_result.source_path # None
                    <=> check_result.mode = CheckMode.CHECK_SCRIPT
             /\ ~(/\ check_result.check_script_content # None
                  /\ check_result.source_path # None)

\* generate_check_script was given check_args and a script path, and raised.
C7_Witness ==
    /\ layout_pc = "generate_check_script"
    /\ check_kwargs.check_args # None
    /\ check_kwargs.check_command = None
    /\ check_kwargs.check_script_path # None
    /\ check_result.raised

(***************************************************************************)
(* Claims about the aggregate validator and about fail-fast assembly.       *)
(***************************************************************************)
\* The number of positions of a sequence that satisfy Test.
CountWhere(seq, Test(_)) == Cardinality({ i \in 1..Len(seq) : Test(seq[i]) })

CountKind(messages, kind) ==
    Cardinality({ i \in 1..Len(messages) : messages[i].kind = kind })

\* The pairs of replication bounds, both present, that are out of order.
ReplicationViolations(map) ==
    { pair \in {<<"min", "desired">>, <<"desired", "max">>, <<"min", "max">>} :
        /\ {pair[1], pair[2]} \subseteq DOMAIN map
        /\ map[pair[1]] > map[pair[2]] }

EmptyIdentityFields(data) ==
    { f \in {"product_group", "product_name", "product_version", "product_type"} :
        data[f] = "" }

\* C11: validate_manifest_data returns (it never raises) an error list with
\* one entry for every violated rule: each empty identity field, a
\* non-orderable product_version, an unknown product_type, each replication
\* violation, each invalid minimum_version, each lockstep dependency, each
\* invalid recommended_version, and one Duplicate error per occurrence of a
\* product_id after its first; an incompatibility without a reason adds one
\* warning and no error.
C11_EveryFindingReported ==
    valid_pc = "validate_manifest_data" =>
        LET deps == manifest.product_dependencies
            ids == { product_id(deps[i]) : i \in 1..Len(deps) }
            BadMinimum(d) == ~OrderableGrammar(d.minimum_version)
            Lockstep(d) == d.maximum_version # None
                           /\ d.minimum_version = d.maximum_version[1]
            BadRecommended(d) == d.recommended_version # None
                                 /\ ~OrderableGrammar(d.recommended_version[1])
            NoReason(incompat) == incompat.reason = ""
        IN  /\ CountKind(report.errors, "required")
                   = Cardinality(EmptyIdentityFields(manifest))
            /\ CountKind(report.errors, "not orderable")
                   = IF manifest.product_version # ""
                        /\ ~OrderableGrammar(manifest.product_version)
                     THEN 1 ELSE 0
            /\ CountKind(report.errors, "unknown type")
                   = IF manifest.product_type
                            \notin {"", "helm.v1", "asset.v1", "service.v1"}
                     THEN 1 ELSE 0
            /\ CountKind(report.errors, "replication")
                   = Cardinality(ReplicationViolations(manifest.replication))
            /\ CountKind(report.errors, "minimum_version")
                   = CountWhere(deps, BadMinimum)
            /\ CountKind(report.errors, "lockstep") = CountWhere(deps, Lockstep)
            /\ CountKind(report.errors, "recommended_version")
                   = CountWhere(deps, BadRecommended)
            /\ CountKind(report.errors, "Duplicate") = Len(deps) - Cardinality(ids)
            /\ CountKind(report.warnings, "no reason")
                   = CountWhere(manifest.product_incompatibilities, NoReason)
            /\ Len(report.warnings)
                   = CountWhere(manifest.product_incompatibilities, NoReason)

\* The five checks of one assembly, evaluated on the field set it was given.
IdentityFails(fs) ==
    validate_manifest_identity(fs.product_group, fs.product_name, fs.version)
        # "none"

ExclusivityFails(fs) ==
    Cardinality({ f \in {"check_args", "check_command", "check_script"} :
                    fs[f] # None }) > 1

DependencyFails(fs) == FirstDependencyError(fs.product_dependencies) # "none"

ReplicationFails(fs) ==
    DOMAIN ReplicationOf(fs) # {} /\ validate_replication(ReplicationOf(fs)) # "none"

HookPathFails(fs) ==
    TruthyItems(fs.hooks) /\ validate_hook_paths(fs.hooks[1]) # "none"

ManifestStageFails(fs) ==
    IdentityFails(fs) \/ ExclusivityFails(fs) \/ DependencyFails(fs)
        \/ ReplicationFails(fs)

C12_WitnessDependency ==
    /\ layout_pc = "assemble_sls_package"
    /\ ~IdentityFails(field_set)
    /\ ~ExclusivityFails(field_set)
    /\ DependencyFails(field_set)
    /\ sls_manifest.raised

(***************************************************************************)
(* Claims about entrypoint.sh, stated on the history entrypoint.trace.      *)
(***************************************************************************)
StartupPhases == SubSeq(HOOK_PHASES, 1, 5)

FatalPhases == SubSeq(HOOK_PHASES, 1, 4)

InSeq(x, seq) == \E i \in 1..Len(seq) : seq[i] = x

\* The positions of the history at which a phase of the given ones was
\* started: it returned ("phase") or a trap cut it short ("interrupted").
StartsOf(t, phases) ==
    { i \in 1..Len(t) : t[i].e \in {"phase", "interrupted"} /\ InSeq(t[i].phase, phases) }

\* The positions of the history that hold the step e.
StepsOf(t, e) == { i \in 1..Len(t) : t[i].e = e }

\* A phase of the first four returned a failure at position i.
FatalFailureAt(t, i) ==
    t[i].e = "phase" /\ InSeq(t[i].phase, FatalPhases) /\ t[i].rc # 0

\* C13: the startup phases are started in the order pre-configure,
\* configure, pre-startup, startup, post-startup; a phase is started only
\* after every earlier one of the first four returned success; when one of
\* the first four fails, the script exits non-zero at once, starts no later
\* phase and does not write the readiness marker; when post-startup fails,
\* the script still writes the readiness marker and goes on to wait.
C13_StartupSequence ==
    LET t == entrypoint.trace
        starts == StartsOf(t, StartupPhases)
    IN  /\ \A i \in starts :
            LET earlier == { j \in starts : j < i }
            IN  /\ t[i].phase = HOOK_PHASES[Cardinality(earlier) + 1]
                /\ \A j \in earlier : t[j].e = "phase" /\ t[j].rc = 0
        /\ \A i \in 1..Len(t) :
            FatalFailureAt(t, i) =>
                /\ Len(t) = i + 1
                /\ t[i + 1].e = "exit"
                /\ entrypoint.pc = "exited"
                /\ entrypoint.exit_code # None
                /\ entrypoint.exit_code[1] # 0
                /\ "initialized" \notin entrypoint.state_files
                /\ StepsOf(t, "touch initialized") = {}
        /\ \A i \in 1..Len(t) :
            (t[i].e = "phase" /\ t[i].phase = "post-startup") =>
                /\ Len(t) > i
                /\ t[i + 1].e = "touch initialized"
                /\ Len(t) = i + 1 =>
                        /\ entrypoint.pc \in {"wait_main", "wait_signal"}
                        /\ "initialized" \in entrypoint.state_files
                        /\ entrypoint.exit_code = None

\* post-startup failed after the main process was started, and the script
\* waits with the readiness marker written.
C13_Witness ==
    LET t == entrypoint.trace
    IN  /\ entrypoint.pc = "wait_main"
        /\ "initialized" \in entrypoint.state_files
        /\ \E i \in 1..Len(t) :
            t[i].e = "phase" /\ t[i].phase = "post-startup" /\ t[i].rc # 0

\* The history from the first call of _shutdown that was not a re-entry.
ShutdownHistory(t) ==
    IF StepsOf(t, "_shutdown") = {} THEN <<>>
    ELSE LET first == CHOOSE i \in StepsOf(t, "_shutdown") :
                        \A j \in StepsOf(t, "_shutdown") : i <= j
         IN  SubSeq(t, first, Len(t))

\* The steps of a shutdown, in order; TERM and KILL are left out when the
\* main process is not alive.
ShutdownOrder == <<"_shutdown", "pre-shutdown", "kill -TERM", "kill -KILL",
                   "shutdown", "rm markers", "exit">>

StepName(event) == IF event.e = "phase" THEN event.phase ELSE event.e

OrderIndex(name) == CHOOSE k \in 1..Len(ShutdownOrder) : ShutdownOrder[k] = name

\* C14: when _shutdown runs, its steps happen in the order pre-shutdown
\* hooks, TERM to the main process if it is alive, grace wait, KILL if it is
\* still alive, shutdown hooks, removal of the state markers, exit 0; no
\* shutdown.d hook runs while a live main process has not been signalled,
\* and a failing hook changes neither the later steps nor the exit code.
C14_ShutdownOrdering ==
    LET t == ShutdownHistory(entrypoint.trace)
    IN  /\ \A i \in 1..Len(t) : InSeq(StepName(t[i]), ShutdownOrder)
        /\ \A i, j \in 1..Len(t) :
            i < j => OrderIndex(StepName(t[i])) < OrderIndex(StepName(t[j]))
        /\ \A i \in 1..Len(t) :
            StepName(t[i]) = "kill -KILL" => i > 1 /\ StepName(t[i - 1]) = "kill -TERM"
        /\ (t # <<>> /\ entrypoint.pc \in {"shutdown", "exited"}) =>
                /\ InSeq("pre-shutdown", [i \in 1..Len(t) |-> StepName(t[i])])
                /\ entrypoint.main_process = "alive" =>
                        InSeq("kill -TERM", [i \in 1..Len(t) |-> StepName(t[i])])
        /\ (t # <<>> /\ entrypoint.pc = "exited") =>
                /\ Len(t) >= 4
                /\ StepName(t[Len(t) - 2]) = "shutdown"
                /\ StepName(t[Len(t) - 1]) = "rm markers"
                /\ StepName(t[Len(t)]) = "exit"
                /\ entrypoint.exit_code = Some(0)
                /\ entrypoint.state_files \cap {"initialized", "main.pid"} = {}

\* The same without the conjunct on the live main process.
C14_OrderOfStepsTaken ==
    LET t == ShutdownHistory(entrypoint.trace)
    IN  /\ \A i \in 1..Len(t) : InSeq(StepName(t[i]), ShutdownOrder)
        /\ \A i, j \in 1..Len(t) :
            i < j => OrderIndex(StepName(t[i])) < OrderIndex(StepName(t[j]))
        /\ \A i \in 1..Len(t) :
            StepName(t[i]) = "kill -KILL" => i > 1 /\ StepName(t[i - 1]) = "kill -TERM"
        /\ (t # <<>> /\ entrypoint.pc \in {"shutdown", "exited"}) =>
                InSeq("pre-shutdown", [i \in 1..Len(t) |-> StepName(t[i])])
        /\ (t # <<>> /\ entrypoint.pc = "exited") =>
                /\ Len(t) >= 4
                /\ StepName(t[Len(t) - 2]) = "shutdown"
                /\ StepName(t[Len(t) - 1]) = "rm markers"
                /\ StepName(t[Len(t)]) = "exit"
                /\ entrypoint.exit_code = Some(0)
                /\ entrypoint.state_files \cap {"initialized", "main.pid"} = {}

\* C15: whatever the number and the timing of TERM and INT signals, the
\* pre-shutdown hooks are run at most once, the shutdown hooks are run at
\* most once, and TERM is sent to the main process at most once.
C15_ShutdownOnce ==
    LET t == entrypoint.trace
    IN  /\ Cardinality(StartsOf(t, <<"pre-shutdown">>)) <= 1
        /\ Cardinality(StartsOf(t, <<"shutdown">>)) <= 1
        /\ Cardinality(StepsOf(t, "kill -TERM")) <= 1

\* Two signals were delivered, so one of them arrived while a shutdown was
\* in progress; TERM was sent to the main process,
\* and the shutdown has finished.
C15_Witness ==
    /\ entrypoint.signals >= 2
    /\ entrypoint.pc = "exited"
    /\ StepsOf(entrypoint.trace, "kill -TERM") # {}
    /\ StartsOf(entrypoint.trace, <<"shutdown">>) # {}

(***************************************************************************)
(* Claims about run_hooks of hooks.sh.                                      *)
(***************************************************************************)
\* The positions of the regular executable entries of a directory listing.
RunnableAt(entries) ==
    { i \in 1..Len(entries) : entries[i].is_file /\ entries[i].is_executable }

\* The positions of the regular executable entries that exit non-zero.
FailingAt(entries) == { i \in RunnableAt(entries) : entries[i].rc # 0 }

FirstOf(positions) == CHOOSE i \in positions : \A j \in positions : i <= j

\* The entries of the listing at the given positions, in listing order.
RECURSIVE EntriesAt(_, _, _)
EntriesAt(entries, positions, i) ==
    IF i > Len(entries) THEN <<>>
    ELSE (IF i \in positions THEN <<entries[i]>> ELSE <<>>)
            \o EntriesAt(entries, positions, i + 1)

\* C16: run_hooks runs the regular executable *.sh files of the directory
\* in order, up to and including the first that exits non-zero, and returns
\* that hook's exit code; it returns 0 when every hook run succeeded, and
\* runs nothing and returns 0 when the directory does not exist.
C16_RunHooksFirstFailure ==
    hooks_pc = "run_hooks" =>
        IF hook_dir = None
        THEN hook_result.rc = 0 /\ hook_result.ran = <<>>
        ELSE LET entries == hook_dir[1]
                 failing == FailingAt(entries)
             IN  IF failing = {}
                 THEN /\ hook_result.rc = 0
                      /\ hook_result.ran =
                            EntriesAt(entries, RunnableAt(entries), 1)
                 ELSE /\ hook_result.rc = entries[FirstOf(failing)].rc
                      /\ hook_result.rc # 0
                      /\ hook_result.ran =
                            EntriesAt(entries,
                                      { i \in RunnableAt(entries) :
                                            i <= FirstOf(failing) }, 1)

\* run_hooks was called on a directory whose first hook exits 3 and is
\* followed by a hook that would have run.
C16_Witness ==
    /\ hooks_pc = "run_hooks"
    /\ hook_dir # None
    /\ Len(hook_dir[1]) = 2
    /\ FailingAt(hook_dir[1]) # {}
    /\ FirstOf(FailingAt(hook_dir[1])) = 1
    /\ hook_dir[1][1].rc = 3
    /\ 2 \in RunnableAt(hook_dir[1])
    /\ hook_result.rc = 3
    /\ Len(hook_result.ran) = 1

\* run_hooks was called on a directory that does not exist.
C16_WitnessNoDirectory ==
    hooks_pc = "run_hooks" /\ hook_dir = None /\ hook_result.rc = 0

(***************************************************************************)
(* Claims about init.sh.  init.before holds the PID file and the live       *)
(* processes that the current run of the script found, init.log what the    *)
(* run did.                                                                 *)
(***************************************************************************)
\* The liveness check: the PID file exists, is not empty, and a zero-signal
\* probe of the PID it records succeeds.
ServiceRunning(PID_FILE, alive) ==
    /\ PID_FILE # None
    /\ PID_FILE[1] # ""
    /\ PID_FILE[1] \in alive

\* The service was running when the current run of init.sh began.
WasRunning == ServiceRunning(init.before.PID_FILE, init.before.alive)

Count(log, what) == Cardinality({ i \in 1..Len(log) : log[i] = what })

\* The part of the log that do_stop wrote: up to the rm of the PID file.
StopLog(log) ==
    IF Count(log, "rm") = 0 THEN log
    ELSE SubSeq(log, 1, CHOOSE i \in 1..Len(log) : log[i] = "rm")

\* The run executes do_stop, alone or as the first half of restart.
StopRan == init.log # <<>> /\ init.log[1] = "do_stop"

\* do_stop of the current run has removed the PID file.
StopDone == StopRan /\ Count(init.log, "rm") > 0

\* What do_stop did, as the log tells it.
C17_StopState ==
    LET log == StopLog(init.log)
        kills == Count(log, "kill -KILL")
    IN  StopRan =>
        /\ WasRunning =>
            /\ Len(log) >= 2
            /\ log[2] = "kill -TERM"
            /\ Count(log, "kill -TERM") = 1
            /\ kills <= 1
            /\ Count(log, "sleep 1") - kills <= init.shutdown_timeout
            /\ kills = 1 =>
                /\ Count(log, "sleep 1") - 1 = init.shutdown_timeout
                /\ \A i \in 1..Len(log) :
                    log[i] = "kill -KILL" =>
                        \A j \in 3..(i - 1) : log[j] = "sleep 1"
            /\ StopDone =>
                /\ log[Len(log)] = "rm"
                /\ init.before.PID_FILE[1] \notin init.alive
        /\ ~WasRunning =>
            /\ Count(init.log, "kill -TERM") = 0
            /\ Count(init.log, "kill -KILL") = 0
            /\ log = <<"do_stop", "rm">>
        /\ (StopDone /\ init.command = "stop") =>
            /\ init.pc = "shell"
            /\ init.PID_FILE = None
            /\ init.exit_code = Some(0)

\* The step that ends the polling loop of do_stop sends KILL exactly when
\* the process is alive at that moment.
C17_KillStep ==
    (init.pc = "do_stop loop" /\ StopLog(init'.log) # StopLog(init.log)
        /\ Count(init'.log, "rm") > 0) =>
        /\ Count(init'.log, "kill -KILL") = 1
                <=> (init.pid \in init.alive /\ init.waited = init.shutdown_timeout)
        /\ (init.pid \notin init.alive /\ init.command = "stop") =>
                init'.alive = init.alive

C17_WitnessExitedEarlier ==
    /\ init.command = "stop"
    /\ WasRunning
    /\ StopDone
    /\ init.shutdown_timeout >= 2
    /\ Count(init.log, "sleep 1") = 1
    /\ Count(init.log, "kill -KILL") = 0

\* stop has returned for a service that was not running: a stale PID file.
C17_WitnessNotRunning ==
    /\ init.command = "stop"
    /\ ~WasRunning
    /\ init.before.PID_FILE = Some("999")
    /\ StopDone
    /\ init.exit_code = Some(0)

\* The run executes do_start for the command start.
StartRan == init.command = "start" /\ init.log # <<>> /\ init.log[1] = "do_start"

\* What do_start did, as the log and the PID file tell it.
C18_StartState ==
    /\ Cardinality(init.alive) <= 1
    /\ StartRan =>
        IF WasRunning
        THEN /\ init.log = <<"do_start">>
             /\ init.PID_FILE = init.before.PID_FILE
             /\ init.alive \subseteq init.before.alive
             /\ init.pc = "shell"
             /\ init.exit_code = Some(0)
        ELSE /\ init.log = <<"do_start", "launch">>
             /\ init.PID_FILE = Some(init.pid)
             /\ init.pid \notin init.before.alive
             /\ init.alive \subseteq init.before.alive \cup {init.pid}
             /\ init.pc = "shell" => init.exit_code \in {Some(0), Some(1)}
             /\ (init.pc = "shell" /\ init.exit_code = Some(1)) =>
                    init.pid \notin init.alive
    /\ (init.command = "restart" /\ Count(init.log, "do_start") > 0) =>
            /\ Count(init.log, "launch") = 1
            /\ init.PID_FILE = Some(init.pid)

\* The step that launches starts one process, which is alive; the step that
\* follows the sleep of do_start returns 1 exactly when that process is not
\* alive, and a step of start with the service running launches nothing.
C18_StartStep ==
    /\ Count(init'.log, "launch") > Count(init.log, "launch") =>
            /\ init'.launched = init.launched + 1
            /\ init'.pid \notin init.alive
            /\ init'.pid \in init'.alive
            /\ init'.alive \subseteq init.alive \cup {init'.pid}
    /\ (init.pc = "do_start sleep" /\ init'.pc = "shell") =>
            /\ init'.exit_code = Some(IF init.pid \in init.alive THEN 0 ELSE 1)
            /\ init'.alive = init.alive
            /\ init'.PID_FILE = init.PID_FILE
    /\ (init.pc = "shell" /\ init'.commands # init.commands
            /\ init'.command = "start" /\ init'.log # <<>>
            /\ ServiceRunning(init.PID_FILE, init.alive)) =>
            /\ init'.launched = init.launched
            /\ init'.alive = init.alive

C18_WitnessFailed ==
    /\ StartRan
    /\ ~WasRunning
    /\ init.pc = "shell"
    /\ init.exit_code = Some(1)
    /\ init.PID_FILE = Some(init.pid)

C19_WitnessRunning ==
    init.command = "status" /\ init.log # <<>> /\ WasRunning
        /\ init.exit_code = Some(0)

\* console was refused because the service is running.
C19_WitnessConsole ==
    init.command = "console" /\ init.log # <<>> /\ WasRunning
        /\ init.exit_code = Some(1)

(***************************************************************************)
(* Claims about the platform detection of init.sh and of the startup shim.  *)
(***************************************************************************)
\* The architecture names the claim gives for the values of uname -m.
ClaimedArch(uname_m) ==
    IF uname_m \in {"x86_64", "amd64"} THEN Some("amd64")
    ELSE IF uname_m \in {"aarch64", "arm64"} THEN Some("arm64")
    ELSE None

\* The directory part of a launcher path, the binary's name cut off.
LauncherDir(launcher, binary) == SubSeq(launcher, 1, Len(launcher) - Len(binary))

\* On a supported architecture both scripts look in the same directory.
C20_SupportedArchitectures ==
    (init_detect.ran /\ shim_run.ran /\ ClaimedArch(platform.uname_m) # None) =>
        LET dir == "service/bin/" \o Tr(platform.uname_s) \o "-"
                        \o ClaimedArch(platform.uname_m)[1] \o "/"
        IN  /\ LauncherDir(shim_run.launcher, "python-service-launcher") = dir
            /\ init_detect.exit_code = 0 =>
                    LauncherDir(init_detect.launcher, "go-python-launcher") = dir

\* C20: the startup shim and init.sh detect the platform alike: both map
\* x86_64 and amd64 to amd64 and aarch64 and arm64 to arm64, and both treat
\* every other value of uname -m as fatal: they exit non-zero, no launcher
\* is started, and the shim writes no PID to main.pid.
C20_SameDetection ==
    /\ C20_SupportedArchitectures
    /\ (init_detect.ran /\ ClaimedArch(platform.uname_m) = None) =>
            /\ init_detect.exit_code # 0
            /\ init_detect.launcher = ""
    /\ (shim_run.ran /\ ClaimedArch(platform.uname_m) = None) =>
            /\ shim_run.exit_code # 0
            /\ ~shim_run.launcher_started
            /\ ~shim_run.pid_written

(***************************************************************************)
(* Claims about validate_hook_paths.                                        *)
(***************************************************************************)
\* The seven phases, as the claim lists them.
ClaimedPhases ==
    {"pre-configure", "configure", "pre-startup", "startup", "post-startup",
     "pre-shutdown", "shutdown"}

\* key is <phase>.d/<basename>.sh with a phase over [a-z-] and a non-empty
\* basename over [a-zA-Z0-9_.-], the phase ending at position i - 1.
HookKeyShapeAt(key, i) ==
    /\ i > 1
    /\ i + 2 <= Len(key)
    /\ SubSeq(key, i, i + 2) = ".d/"
    /\ AllIn(SubSeq(key, 1, i - 1), Lower \cup {"-"})
    /\ Len(key) >= i + 3 + 3
    /\ SubSeq(key, Len(key) - 2, Len(key)) = ".sh"
    /\ AllIn(SubSeq(key, i + 3, Len(key) - 3),
             Lower \cup Upper \cup Digit \cup {"_", ".", "-"})

HookKeyShaped(key) == \E i \in 1..Len(key) : HookKeyShapeAt(key, i)

\* The phase of a key that has the shape.
HookKeyPhase(key) ==
    LET i == CHOOSE i \in 1..Len(key) : HookKeyShapeAt(key, i)
    IN  SubSeq(key, 1, i - 1)

\* The key is valid as the claim defines it.
HookKeyValid(key) == HookKeyShaped(key) /\ HookKeyPhase(key) \in ClaimedPhases

\* The error the claim gives for an offending key.
HookKeyErrorNamed(error, key) ==
    IF HookKeyShaped(key)
    THEN StartsWith(error, "Unknown hook phase '" \o HookKeyPhase(key)
                                \o "' in '" \o key \o "'")
    ELSE StartsWith(error, "Invalid hook path '" \o key \o "'")

\* The assembly has reached validate_hook_paths with the hooks of the
\* field set.
HookPathsValidated ==
    /\ layout_pc = "assemble_sls_package"
    /\ ~sls_manifest.raised
    /\ ~check_result.raised
    /\ field_set.hooks # None

HookKeysOf(fs) == { fs.hooks[1][i].key : i \in 1..Len(fs.hooks[1]) }

\* C21: validate_hook_paths succeeds iff every key of the mapping is
\* <phase>.d/<basename>.sh with one of the seven phases and a non-empty
\* basename over [a-zA-Z0-9_.-], nothing before or after; otherwise it
\* fails on an offending key, with a format error for a malformed path and
\* an unknown-phase error naming the phase for a well-formed path whose
\* phase is not one of the seven; the empty mapping succeeds.
C21_HookPathsValidIffGrammar ==
    HookPathsValidated =>
        LET keys == HookKeysOf(field_set)
            offending == { key \in keys : ~HookKeyValid(key) }
        IN  /\ package_error = "" <=> offending = {}
            /\ package_error # "" =>
                    \E key \in offending : HookKeyErrorNamed(package_error, key)

\* The same for mappings none of whose keys ends with a newline.
C21_WithoutTrailingNewline ==
    (HookPathsValidated
        /\ \A key \in HookKeysOf(field_set) : Char(key, Len(key)) # "\n") =>
        LET keys == HookKeysOf(field_set)
            offending == { key \in keys : ~HookKeyValid(key) }
        IN  /\ package_error = "" <=> offending = {}
            /\ package_error # "" =>
                    \E key \in offending : HookKeyErrorNamed(package_error, key)

(***************************************************************************)
(* Claims about parse_lock_file and validate_lock_file on lock files        *)
(* written by hand.                                                         *)
(***************************************************************************)
EndsWith(s, suffix) ==
    Len(suffix) <= Len(s) /\ SubSeq(s, Len(s) - Len(suffix) + 1, Len(s)) = suffix

\* The line is neither blank nor a comment.
IsEntryLine(line) == Strip(line) # "" /\ Char(Strip(line), 1) # "#"

\* The parts of a stripped line read as 'group:name (min, max)[ optional]':
\* the group ends at the first ":", the name at the whitespace before the
\* first "(", min at the first "," after it and max at the first ")" after
\* that.
LineParts(s) ==
    LET colon == Find(s, ":", 1)
        lparen == Find(s, "(", 1)
        comma == IF lparen = 0 THEN 0 ELSE Find(s, ",", lparen + 1)
        rparen == IF comma = 0 THEN 0 ELSE Find(s, ")", comma + 1)
    IN  [colon |-> colon, lparen |-> lparen, comma |-> comma, rparen |-> rparen,
         group |-> SubSeq(s, 1, colon - 1),
         name |-> RStrip(SubSeq(s, colon + 1, lparen - 1)),
         gap |-> Len(SubSeq(s, colon + 1, lparen - 1))
                    - Len(RStrip(SubSeq(s, colon + 1, lparen - 1))),
         min |-> SubSeq(s, lparen + 1, comma - 1),
         max |-> SubSeq(s, comma + 1, rparen - 1),
         tail |-> SubSeq(s, rparen + 1, Len(s))]

\* The stripped line has the format 'group:name (min, max)[ optional]'.
LineHasFormat(s) ==
    LET p == LineParts(s)
    IN  /\ p.colon > 1
        /\ p.lparen > p.colon
        /\ p.comma > p.lparen + 1
        /\ p.rparen > p.comma + 1
        /\ AllIn(p.group, Lower \cup Digit \cup {".", "-"})
        /\ p.name # ""
        /\ Char(p.name, 1) \in Lower
        /\ AllIn(p.name, Lower \cup Digit \cup {".", "-"})
        /\ p.gap >= 1
        /\ \/ p.tail = ""
           \/ /\ Char(p.tail, 1) \in Whitespace
              /\ Strip(p.tail) = "optional"

\* The entry the claim gives for a line that has the format.
LineEntry(line) ==
    LET s == Strip(line)
        p == LineParts(s)
    IN  [product_group |-> p.group, product_name |-> p.name,
         minimum_version |-> Strip(p.min), maximum_version |-> Strip(p.max),
         optional |-> EndsWith(s, " optional")]

\* The entries of the lines from i on that are neither blank nor comments.
RECURSIVE LineEntries(_, _)
LineEntries(lines, i) ==
    IF i > Len(lines) THEN <<>>
    ELSE (IF IsEntryLine(lines[i]) THEN <<LineEntry(lines[i])>> ELSE <<>>)
            \o LineEntries(lines, i + 1)

\* The numbers of the lines that are neither blank nor comments and do not
\* have the format.
OffendingLines(lines) ==
    { i \in 1..Len(lines) : IsEntryLine(lines[i]) /\ ~LineHasFormat(Strip(lines[i])) }

\* C22: parse_lock_file returns one LockEntry per line that is neither
\* blank nor a comment, in line order, min and max trimmed and optional
\* true iff the line ends with " optional"; when such a line does not have
\* the format, it raises an error with the 1-based number of the first
\* offending line and its raw content, and returns no entry.
C22_ParseLockFile ==
    lock_pc = "parsed_text" =>
        LET lines == SplitLines(content)
            offending == OffendingLines(lines)
        IN  IF offending = {}
            THEN /\ ~parsed.raised
                 /\ parsed.entries = LineEntries(lines, 1)
            ELSE /\ parsed.raised
                 /\ parsed.line_num = FirstOf(offending)
                 /\ parsed.line = lines[parsed.line_num]
                 /\ parsed.entries = <<>>

\* The second line of the file is the first offending one, after a line
\* that holds an entry.
C22_Witness ==
    /\ lock_pc = "parsed_text"
    /\ parsed.raised
    /\ parsed.line_num = 2
    /\ parsed.entries = <<>>
    /\ IsEntryLine(SplitLines(content)[1])
    /\ LineHasFormat(Strip(SplitLines(content)[1]))

\* A file with a comment, an entry with whitespace around its versions and
\* an optional entry was parsed.
C22_WitnessEntries ==
    /\ lock_pc = "parsed_text"
    /\ ~parsed.raised
    /\ Len(SplitLines(content)) = 3
    /\ Len(parsed.entries) = 2
    /\ parsed.entries[1].optional
    /\ parsed.entries[1].minimum_version = "1.0.0"
    /\ ~parsed.entries[2].optional

(***************************************************************************)
(* C23  Manifest omission rule.                                             *)
(***************************************************************************)
HasKey(doc, path) == \E i \in 1..Len(doc) : doc[i].path = path

\* The keys every document, dependency, incompatibility or artifact has.
RequiredKeys ==
    { <<"manifest-version">>, <<"product-type">>, <<"product-group">>,
      <<"product-name">>, <<"product-version">> }

RequiredNestedKeys ==
    { "product-group", "product-name", "minimum-version", "optional",
      "version-range", "reason", "type", "uri" }

IsRequiredKey(path) ==
    \/ path \in RequiredKeys
    \/ /\ Len(path) = 4
       /\ path[1] = "extensions"
       /\ path[4] \in RequiredNestedKeys

\* The keys whose source is an Optional[str] of a nested item.
NestedOptionalKeys ==
    { "maximum-version", "recommended-version", "name", "digest" }

IsNestedOptionalKey(path) ==
    Len(path) = 4 /\ path[1] = "extensions" /\ path[4] \in NestedOptionalKeys

\* What is emitted is neither an empty string nor an empty collection.
NotEmpty(item) == item.size > 0

EmptyOrUnset(o) == o = None \/ o[1] = ""

\* The nested optional keys of an empty or unset source value are absent.
NestedEmptyAbsent(data, doc) ==
    /\ \A i \in 1..Len(data.product_dependencies) :
        LET d == data.product_dependencies[i]
            at == <<"extensions", "product-dependencies", Index(i)>>
        IN  /\ EmptyOrUnset(d.maximum_version)
                => ~HasKey(doc, Append(at, "maximum-version"))
            /\ EmptyOrUnset(d.recommended_version)
                => ~HasKey(doc, Append(at, "recommended-version"))
    /\ \A i \in 1..Len(data.artifacts) :
        LET a == data.artifacts[i]
            at == <<"extensions", "artifacts", Index(i)>>
        IN  /\ EmptyOrUnset(a.name) => ~HasKey(doc, Append(at, "name"))
            /\ EmptyOrUnset(a.digest) => ~HasKey(doc, Append(at, "digest"))

\* The optional top-level keys, and the keys of resources and extensions,
\* of an empty or unset source value are absent.
TopLevelEmptyAbsent(data, doc) ==
    /\ EmptyOrUnset(data.display_name) => ~HasKey(doc, <<"display-name">>)
    /\ EmptyOrUnset(data.description) => ~HasKey(doc, <<"description">>)
    /\ data.traits = <<>> => ~HasKey(doc, <<"traits">>)
    /\ data.labels = <<>> => ~HasKey(doc, <<"labels">>)
    /\ data.annotations = <<>> => ~HasKey(doc, <<"annotations">>)
    /\ data.resource_requests = <<>> => ~HasKey(doc, <<"resources", "requests">>)
    /\ data.resource_limits = <<>> => ~HasKey(doc, <<"resources", "limits">>)
    /\ (data.resource_requests = <<>> /\ data.resource_limits = <<>>)
        => ~HasKey(doc, <<"resources">>)
    /\ data.replication = <<>> => ~HasKey(doc, <<"replication">>)
    /\ data.endpoints = <<>> => ~HasKey(doc, <<"endpoints">>)
    /\ data.volumes = <<>> => ~HasKey(doc, <<"volumes">>)
    /\ data.secrets = <<>> => ~HasKey(doc, <<"secrets">>)
    /\ data.product_dependencies = <<>>
        => ~HasKey(doc, <<"extensions", "product-dependencies">>)
    /\ data.product_incompatibilities = <<>>
        => ~HasKey(doc, <<"extensions", "product-incompatibilities">>)
    /\ data.artifacts = <<>> => ~HasKey(doc, <<"extensions", "artifacts">>)
    /\ (/\ data.extensions = <<>>
        /\ data.product_dependencies = <<>>
        /\ data.product_incompatibilities = <<>>
        /\ data.artifacts = <<>>) => ~HasKey(doc, <<"extensions">>)

\* C23: after to_dict, no optional top-level key and no nested key of an
\* empty or unset source value is in the document, and no key other than a
\* required one is emitted with an empty string or an empty collection.
C23_OmissionRule ==
    valid_pc = "to_dict" =>
        /\ TopLevelEmptyAbsent(manifest_data, manifest_doc)
        /\ NestedEmptyAbsent(manifest_data, manifest_doc)
        /\ \A i \in 1..Len(manifest_doc) :
            IsRequiredKey(manifest_doc[i].path) \/ NotEmpty(manifest_doc[i])

\* What holds: the rule for the top-level keys and for the keys of resources
\* and extensions; a nested Optional[str] that is None is absent; and the only
\* empty values emitted are the nested Optional[str] fields set to ''.
C23_TopLevelAndUnset ==
    valid_pc = "to_dict" =>
        /\ TopLevelEmptyAbsent(manifest_data, manifest_doc)
        /\ \A i \in 1..Len(manifest_doc) :
            \/ IsRequiredKey(manifest_doc[i].path)
            \/ IsNestedOptionalKey(manifest_doc[i].path)
            \/ NotEmpty(manifest_doc[i])
        /\ \A i \in 1..Len(manifest_data.product_dependencies) :
            LET d == manifest_data.product_dependencies[i]
                at == <<"extensions", "product-dependencies", Index(i)>>
            IN  /\ HasKey(manifest_doc, Append(at, "maximum-version"))
                    <=> d.maximum_version # None
                /\ HasKey(manifest_doc, Append(at, "recommended-version"))
                    <=> d.recommended_version # None

(***************************************************************************)
(* C24  Grace period of the entrypoint shutdown.                            *)
(***************************************************************************)
\* SHUTDOWN_GRACE_SECONDS, or 10 when it is not set.
ClaimedGrace(e) == IF e.grace_env = None THEN DEFAULT_GRACE ELSE e.grace_env[1]

TermSent(t) == StepsOf(t, "kill -TERM") # {}

KillSent(t) == StepsOf(t, "kill -KILL") # {}

\* In every state: KILL comes after a TERM and after all the polls of the
\* grace period, and at most once; no more polls than the grace period.
C24_GraceState ==
    /\ entrypoint.waited <= ClaimedGrace(entrypoint)
    /\ \A k \in StepsOf(entrypoint.trace, "kill -KILL") :
        \E t \in StepsOf(entrypoint.trace, "kill -TERM") : t < k
    /\ KillSent(entrypoint.trace) => entrypoint.waited = ClaimedGrace(entrypoint)
    /\ Cardinality(StepsOf(entrypoint.trace, "kill -KILL")) <= 1

\* In every step: KILL is sent only by the step that ends the grace loop;
\* that step sends it iff the main process is still alive, which it is only
\* when all the polls have elapsed; a poll is one more second waited.
C24_GraceStep ==
    /\ ~KillSent(entrypoint.trace) /\ KillSent(entrypoint'.trace)
        => entrypoint.pc = "grace" /\ entrypoint'.pc = "shutdown"
    /\ entrypoint.pc = "grace" /\ entrypoint'.pc # "grace"
        => /\ entrypoint'.pc = "shutdown"
           /\ KillSent(entrypoint'.trace) <=> entrypoint.main_process = "alive"
           /\ entrypoint.main_process = "alive"
                => entrypoint.waited = ClaimedGrace(entrypoint)
           /\ entrypoint'.main_process = "dead"
    /\ entrypoint.pc = "grace" /\ entrypoint'.waited # entrypoint.waited
        => /\ entrypoint'.waited = entrypoint.waited + 1
           /\ entrypoint.main_process = "alive"

\* The shutdown hooks were run and the script exited with 0.
ShutdownCompleted(e) ==
    /\ e.pc = "exited"
    /\ e.exit_code = Some(0)
    /\ \E i \in 1..Len(e.trace) :
        e.trace[i].e = "phase" /\ e.trace[i].phase = "shutdown"

\* C24: KILL is sent to the main process iff it is still alive after TERM
\* and SHUTDOWN_GRACE_SECONDS (default 10) one-second polls; never before
\* TERM, never when the process exits within the grace period; the loop
\* ends after at most that many polls, and the shutdown routine goes on to
\* the shutdown hooks and exits.
C24_GracePeriod ==
    /\ [] C24_GraceState
    /\ [][C24_GraceStep]_vars
    /\ (entrypoint.SHUTDOWN_IN_PROGRESS # "") ~> ShutdownCompleted(entrypoint)

\* TERM, two polls, KILL, the shutdown hooks, exit 0.
C24_Witness ==
    /\ ShutdownCompleted(entrypoint)
    /\ KillSent(entrypoint.trace)
    /\ entrypoint.waited > 1

\* TERM, a poll, the main process exits, no KILL.
C24_WitnessExitsInGrace ==
    /\ ShutdownCompleted(entrypoint)
    /\ TermSent(entrypoint.trace)
    /\ ~KillSent(entrypoint.trace)
    /\ entrypoint.waited > 0

(***************************************************************************)
(* C25  run_hooks_timed: the result of run_hooks, and a record per call.    *)
(***************************************************************************)
\* The record lists the hooks of ran, in order, each with its exit code, and
\* its status is "failed" iff one of them exited non-zero.
RecordOf(metric, ran) ==
    /\ Len(metric.hooks) = Len(ran)
    /\ \A i \in 1..Len(ran) :
        metric.hooks[i].hook = ran[i].name /\ metric.hooks[i].rc = ran[i].rc
    /\ metric.status = "failed" <=> \E i \in 1..Len(ran) : ran[i].rc # 0
    /\ metric.status \in {"ok", "failed"}

\* C25: a call of run_hooks_timed returns the code run_hooks returns for the
\* same directory, having executed the same hooks up to and including the
\* first failing one, and writes one record for the phase that lists the
\* hooks executed, with status "failed" iff a hook exited non-zero.
C25_RunHooksTimed ==
    hooks_pc = "run_hooks_timed" =>
        /\ hook_result.rc = run_hooks(hook_dir).rc
        /\ hook_result.ran = run_hooks(hook_dir).ran
        /\ hook_result.metric # None
        /\ RecordOf(hook_result.metric[1], hook_result.ran)
        /\ hook_result.metric[1].phase = "startup"

\* What holds: the hooks executed are those run_hooks executes, the call
\* fails iff run_hooks fails, with the code 1, and when the directory
\* exists one record of the executed hooks is written.
C25_HaltAndRecordOfDirectory ==
    hooks_pc = "run_hooks_timed" =>
        /\ hook_result.ran = run_hooks(hook_dir).ran
        /\ hook_result.rc = IF run_hooks(hook_dir).rc # 0 THEN 1 ELSE 0
        /\ hook_result.metric # None <=> hook_dir # None
        /\ hook_dir # None =>
            /\ RecordOf(hook_result.metric[1], hook_result.ran)
            /\ hook_result.metric[1].phase = "startup"

\* The number of entries whose product_id occurred on an earlier line.
RepeatedIds(entries) ==
    Cardinality({ i \in 1..Len(entries) :
                    \E j \in 1..(i - 1) : product_id(entries[j]) = product_id(entries[i]) })

\* The number of empty minimum or maximum versions among the entries.
EmptyVersions(entries) ==
    Cardinality({ i \in 1..Len(entries) : entries[i].minimum_version = "" })
        + Cardinality({ i \in 1..Len(entries) : entries[i].maximum_version = "" })

\* The dependencies have pairwise distinct product_ids and each passes
\* validate_dependency.
DistinctValidDependencies(deps) ==
    /\ \A i, j \in 1..Len(deps) : i # j => product_id(deps[i]) # product_id(deps[j])
    /\ \A i \in 1..Len(deps) : validate_dependency(deps[i]) = "none"

\* What the claim says of the list returned for a text, written by hand or
\* generated.
C26_ErrorList ==
    lock_pc = "validated" =>
        LET lines == SplitLines(content)
            entries == LineEntries(lines, 1)
        IN  IF OffendingLines(lines) # {}
            THEN Len(lock_errors) = 1
            ELSE /\ CountWhere(lock_errors,
                        LAMBDA e : StartsWith(e, "Duplicate")) = RepeatedIds(entries)
                 /\ Len(lock_errors) = RepeatedIds(entries) + EmptyVersions(entries)
                 /\ lock_errors = <<>> <=>
                        (RepeatedIds(entries) = 0 /\ EmptyVersions(entries) = 0)

\* C26: validate_lock_file never raises; a parse failure gives a list of
\* exactly one element; otherwise the list holds one 'Duplicate' message per
\* entry whose product_id occurred on an earlier line and one message per
\* empty minimum or maximum version, and is empty iff the text parses, has
\* distinct product_ids and no empty version; every text generate_lock_file
\* produces from dependencies with distinct product_ids that pass
\* validate_dependency gives the empty list.
C26_ValidateLockFile ==
    /\ C26_ErrorList
    /\ (lock_pc = "validated" /\ DistinctValidDependencies(dependencies)
            /\ content = generate_lock_file(dependencies)) =>
            lock_errors = <<>>

(***************************************************************************)
(* C27  No orphaned main process.                                           *)
(***************************************************************************)
\* C27: when entrypoint.sh has exited, by _shutdown or by a fatal phase, the
\* main process a startup.d hook launched is not alive.
C27_NoOrphan ==
    entrypoint.pc = "exited" => entrypoint.main_process # "alive"

\* What holds: an entrypoint that read the PID of the main process before
\* _shutdown ran leaves no main process alive when it exits through
\* _shutdown.
C27_NoOrphanOncePidRead ==
    (/\ entrypoint.pc = "exited"
     /\ entrypoint.exit_code = Some(0)
     /\ entrypoint.MAIN_PID # "")
        => entrypoint.main_process # "alive"

(***************************************************************************)
(* C28  Readiness implies a started main process.                           *)
(***************************************************************************)
StartupReturned(t, rc) ==
    \E i \in 1..Len(t) :
        t[i].e = "phase" /\ t[i].phase = "startup" /\ t[i].rc = rc

\* C28: the readiness marker is written, after a startup hook wrote
\* main.pid, only if that hook started the main process; a shim that cannot
\* execute the launcher makes the startup phase fail.
C28_ReadyImpliesStarted ==
    ({"initialized", "main.pid"} \subseteq entrypoint.state_files)
        => entrypoint.main_process # "none"

\* What holds: the readiness marker is written only after the startup phase
\* returned 0.
C28_ReadyAfterStartupReturnedZero ==
    "initialized" \in entrypoint.state_files
        => StartupReturned(entrypoint.trace, 0)

(***************************************************************************)
(* C29  Launcher path agreement.                                            *)
(***************************************************************************)
\* The platform of the host is one of LAUNCHER_PLATFORMS.
SupportedPlatform(host) ==
    /\ ClaimedArch(host.uname_m) # None
    /\ \E p \in 1..Len(LAUNCHER_PLATFORMS) :
        LAUNCHER_PLATFORMS[p] = <<Tr(host.uname_s), ClaimedArch(host.uname_m)[1]>>

\* The paths at which the distribution places the downloaded binaries.
LayoutLauncherPaths ==
    { launcher_layout_path(LAUNCHER_PLATFORMS[p][1], LAUNCHER_PLATFORMS[p][2]) :
        p \in 1..Len(LAUNCHER_PLATFORMS) }

AllScriptsRan == init_detect.ran /\ shim_run.ran /\ check_run.ran

\* C29: on a supported platform init.sh, check.sh and the startup shim
\* resolve the path launcher_layout_path gives, and in a distribution that
\* holds all platform binaries none of them fails to find the launcher.
C29_LauncherPathAgreement ==
    (AllScriptsRan /\ SupportedPlatform(platform)) =>
        LET os == Tr(platform.uname_s)
            arch == ClaimedArch(platform.uname_m)[1]
            path == launcher_layout_path(os, arch)
        IN  /\ init_launcher(os, arch) = path
            /\ check_run.launcher = path
            /\ shim_run.launcher = path
            /\ LayoutLauncherPaths \subseteq platform.executables =>
                /\ init_detect.exit_code = 0 /\ init_detect.launcher = path
                /\ check_run.exit_code = 0
                /\ shim_run.exit_code = 0 /\ shim_run.launcher_started

\* What holds: check.sh and the startup shim resolve the layout path and
\* find the launcher in a distribution that holds all platform binaries.
C29_CheckAndShimAgree ==
    (AllScriptsRan /\ SupportedPlatform(platform)) =>
        LET os == Tr(platform.uname_s)
            arch == ClaimedArch(platform.uname_m)[1]
            path == launcher_layout_path(os, arch)
        IN  /\ check_run.launcher = path
            /\ shim_run.launcher = path
            /\ LayoutLauncherPaths \subseteq platform.executables =>
                /\ check_run.exit_code = 0
                /\ shim_run.exit_code = 0 /\ shim_run.launcher_started

(***************************************************************************)
(* C30  Concurrent init.sh invocations.                                     *)
(***************************************************************************)
\* At most one launcher is alive and the PID file names it.
OneLauncherInPidFile(v) ==
    /\ Cardinality(v.alive) <= 1
    /\ \A x \in v.alive : v.PID_FILE = Some(x)

\* C30: once all the start and restart commands run at the same time on a
\* stopped service have returned, at most one launcher is alive and the PID
\* file holds its PID, and a later stop leaves no launcher running.
C30_ConcurrentStart ==
    /\ (AllReturned(invocations) /\ invocations.stop = "none")
        => OneLauncherInPidFile(invocations)
    /\ invocations.stop = "stopped" => invocations.alive = {}

\* What holds: the same, for commands that were run one after another.
C30_OneAfterAnother ==
    ~invocations.overlapped =>
        /\ (AllReturned(invocations) /\ invocations.stop = "none")
            => OneLauncherInPidFile(invocations)
        /\ invocations.stop = "stopped" => invocations.alive = {}

====
